---------------------------- MODULE Spec2Model ----------------------------
(***************************************************************************)
(* A model of vumi-wikipedia: the content formatter / paginator            *)
(* (text_manglers.py), the article-extract parser (article_extract.py)     *)
(* and the USSD/SMS worker that drives them (wikipedia.py).                *)
(*                                                                         *)
(* Strings are sequences of one-character strings.  The characters are     *)
(* classes of code points:                                                 *)
(*   "a" "b" ...  ASCII word characters          " "   a space             *)
(*   "."          the full stop                  "\n"  a newline           *)
(*   "U"          any code point >= U+0080       "F"   U+FFFD              *)
(*   "2" "3" "4"  decimal digits                                           *)
(***************************************************************************)
EXTENDS Integers, Sequences, FiniteSets, TLC

VARIABLES
    \* ---- the formatter and the pagination driver (FormatSpec) ----
    ussd_text,      \* the section text handed to format (normalize_content()[0])
    sms_text,       \* the text handed to format_more (normalize_content()[1])
    more_suffix,    \* the "more" suffix of this session
    no_more_suffix, \* the "no more" suffix of this session
    sms_offset,     \* the driver's offset into sms_text
    more_state,     \* "more" while the driver continues, "None" once it ended
    call,           \* the last formatter call: its arguments and its result
    delivered,      \* the chunk bodies sent so far, a " " at each split point
    \* ---- the article-extract parser (ParseSpec) ----
    outline,        \* the headings the extract was written from: digit and shape
    intro_text,     \* what the extract holds before its first heading
    raw_extract,    \* the raw extract string
    extract,        \* ArticleExtract(data): its sections, or the exception
    cached,         \* extract.to_json()
    restored,       \* ArticleExtract.from_json(cached).sections
    parse_pc,       \* "data", "parsed", "raised", "cached", "restored"
    \* ---- the worker (Spec) ----
    config,         \* the worker's WikipediaConfig
    wikipedia,      \* the raw extract the API serves for the article
    fullurl,        \* the URL the API serves with it (extract.fullurl)
    extract_redis,  \* the extract cache: the entry of the article, or None
    fetched,        \* what the last handler's get_extract did
    session,        \* the user's stored session
    inbound,        \* the message handled last
    sent,           \* the messages the last handler sent, in order
    loaded,         \* the session the last handler loaded
    answer,         \* the API's answer to the last handler's call
    raised,         \* whether the last handler's processing raised
    failed,         \* whether the last handler ended in an exception it let pass
    handlers,       \* the handlers in flight, step by step: message, position, session
    path            \* the states the stored session went through, before and after the last handler

parse_vars == <<outline, intro_text, raw_extract, extract, cached, restored, parse_pc>>

worker_vars == <<config, wikipedia, fullurl, extract_redis, fetched, session, inbound, sent, loaded, answer, raised, failed, handlers, path>>

fmt_vars == <<ussd_text, sms_text, more_suffix, no_more_suffix, sms_offset,
              more_state, call, delivered>>

---------------------------------------------------------------------------
(* Bounds of the model.                                                    *)

\* The longest section text drawn.
MaxLen == 6
\* ContentFormatter.ascii_limit, scaled down with the texts.
AsciiLimit == 6
\* ContentFormatter.unicode_limit, scaled down with the texts.
UnicodeLimit == 5
\* ContentFormatter.sentence_break_threshold of the SMS formatter, scaled.
SmsSentenceBreakThreshold == 3
\* The most headings of an extract drawn.
MaxHeadings == 4
\* WikipediaConfig.max_ussd_content_length and max_ussd_unicode_length of the
\* worker, scaled.
MaxUssdContentLength == 10
MaxUssdUnicodeLength == 8
\* A max_ussd_content_length too short for the section menu of an article.
NarrowUssdContentLength == 5
\* The most 'more' SMS handled within one session.
MaxMoreMessages == 3

---------------------------------------------------------------------------
(* Python's string primitives.                                             *)

Min(a, b) == IF a < b THEN a ELSE b
Max(a, b) == IF a > b THEN a ELSE b

\* str.isspace() of one character.
Whitespace == {" ", "\n"}

\* s[:m], for any integer m (a negative m counts from the end).
SliceTo(s, m) ==
    IF m >= 0 THEN SubSeq(s, 1, Min(m, Len(s)))
    ELSE SubSeq(s, 1, Max(Len(s) + m, 0))

\* s[o:], for any integer o (a negative o counts from the end).
SliceFrom(s, o) ==
    IF o >= 0 THEN SubSeq(s, Min(o, Len(s)) + 1, Len(s))
    ELSE SubSeq(s, Max(Len(s) + o, 0) + 1, Len(s))

\* The largest index of s, at most hi, whose character is (not) whitespace; 0 if none.
LastNonSpace(s, hi) ==
    LET I == {i \in 1..hi : s[i] \notin Whitespace}
    IN  IF I = {} THEN 0 ELSE CHOOSE i \in I : \A j \in I : j <= i
LastSpace(s, hi) ==
    LET I == {i \in 1..hi : s[i] \in Whitespace}
    IN  IF I = {} THEN 0 ELSE CHOOSE i \in I : \A j \in I : j <= i
FirstNonSpace(s) ==
    LET I == {i \in 1..Len(s) : s[i] \notin Whitespace}
    IN  IF I = {} THEN 0 ELSE CHOOSE i \in I : \A j \in I : i <= j

\* s.rsplit(None, 1): the list of at most two parts.  The last word is split
\* off; what is left of it keeps its leading whitespace and loses its trailing
\* whitespace; a string without any word gives the empty list.
rsplit_whitespace(s) ==
    LET j == LastNonSpace(s, Len(s))
        i == LastSpace(s, j)
        k == LastNonSpace(s, i)
    IN  IF j = 0 THEN << >>
        ELSE IF k = 0 THEN << SubSeq(s, i + 1, j) >>
        ELSE << SubSeq(s, 1, k), SubSeq(s, i + 1, j) >>

\* The index of the "." of the last ". " in s; 0 if there is none.
LastSentenceBreak(s) ==
    LET I == {i \in 1..(Len(s) - 1) : s[i] = "." /\ s[i + 1] = " "}
    IN  IF I = {} THEN 0 ELSE CHOOSE i \in I : \A j \in I : j <= i

\* s.strip()
strip(s) ==
    IF FirstNonSpace(s) = 0 THEN << >>
    ELSE SubSeq(s, FirstNonSpace(s), LastNonSpace(s, Len(s)))

\* ' '.join(text.strip().split()): every whitespace run becomes one space.
RECURSIVE JoinWords(_)
JoinWords(s) ==
    LET t == strip(s)
        I == {i \in 1..Len(t) : t[i] \in Whitespace}
        e == IF I = {} THEN Len(t) + 1 ELSE CHOOSE i \in I : \A j \in I : i <= j
    IN  IF I = {} THEN t
        ELSE SubSeq(t, 1, e - 1) \o <<" ">> \o JoinWords(SubSeq(t, e, Len(t)))

normalize_whitespace(text) == JoinWords(text)

---------------------------------------------------------------------------
(* text_manglers.py: ContentFormatter.                                      *)

\* UNICODE_REGEX: the code points U+0080 .. U+FFFF.
NonAscii == {"U", "F"}

is_unicode(string) == \E i \in 1..Len(string) : string[i] \in NonAscii

\* A ContentFormatter: its constructor's arguments.
ContentFormatter(ascii_limit, unicode_limit, pre_ellipsis, post_ellipsis, threshold) ==
    [ascii_limit |-> ascii_limit, unicode_limit |-> unicode_limit,
     pre_ellipsis |-> pre_ellipsis, post_ellipsis |-> post_ellipsis,
     sentence_break_threshold |-> threshold]

get_limit(self, text, extra_len) ==
    (IF is_unicode(text) THEN self.unicode_limit ELSE self.ascii_limit) - extra_len

\* The IndexError of rsplit(None, 1)[0] on a text without any word.
IndexError == << "IndexError" >>

\* _truncate_text had it split a long word one character short.
_truncate_text_one_short(text, max_length) ==
    LET parts == rsplit_whitespace(text)
    IN  IF parts = << >> THEN IndexError
        ELSE IF parts[1] = text THEN SliceTo(text, max_length - 1)
        ELSE parts[1]

_truncate_text(text, max_length) ==
    LET parts == rsplit_whitespace(text)
    IN  IF parts = << >> THEN IndexError
        ELSE IF parts[1] = text THEN SliceTo(text, max_length)
        ELSE parts[1]

\* while len(text) > max_length: text = self._truncate_text(text, max_length)
RECURSIVE TruncateLoop(_, _)
TruncateLoop(text, max_length) ==
    IF text = IndexError THEN IndexError
    ELSE IF Len(text) > max_length
         THEN TruncateLoop(_truncate_text(text, max_length), max_length)
         ELSE text

\* The re-cut had it looked for '. ' in the whole text.
SentenceBreakAnywhere(self, text) ==
    IF self.sentence_break_threshold > 0 /\ LastSentenceBreak(text) > 0
    THEN SubSeq(text, 1, LastSentenceBreak(text))
    ELSE text

\* if '. ' in text[-threshold:]: text = text.rsplit('. ', 1)[0] + '.'
SentenceBreak(self, text) ==
    LET t == self.sentence_break_threshold
        window == SliceFrom(text, 0 - t)
    IN  IF t > 0 /\ LastSentenceBreak(window) > 0
        THEN SubSeq(text, 1, LastSentenceBreak(text))
        ELSE text

\* The pair a formatter call returns, or the exception it raises.
Returned(n, text) == [raised |-> FALSE, n |-> n, text |-> text]
Raised == [raised |-> TRUE, n |-> 0, text |-> IndexError]

\* _format had it asked for room to spare before returning the text whole.
_format_strict_fit(self, content, postfix, extra_len) ==
    IF Len(content) < get_limit(self, content, Len(postfix))
    THEN Returned(Len(content) - extra_len, content \o postfix)
    ELSE LET ell == self.post_ellipsis \o postfix
             max_length == get_limit(self, content, Len(ell))
             cut == TruncateLoop(content, max_length)
         IN  IF cut = IndexError THEN Raised
             ELSE LET text == SentenceBreak(self, cut)
                  IN  Returned(Len(text) - extra_len, text \o ell)

\* _format had it left the post-ellipsis out of max_length.
_format_forgetting_ellipsis(self, content, postfix, extra_len) ==
    IF Len(content) <= get_limit(self, content, Len(postfix))
    THEN Returned(Len(content) - extra_len, content \o postfix)
    ELSE LET ell == self.post_ellipsis \o postfix
             max_length == get_limit(self, content, Len(postfix))
             cut == TruncateLoop(content, max_length)
         IN  IF cut = IndexError THEN Raised
             ELSE LET text == SentenceBreak(self, cut)
                  IN  Returned(Len(text) - extra_len, text \o ell)

_format(self, content, postfix, extra_len) ==
    IF Len(content) <= get_limit(self, content, Len(postfix))
    THEN Returned(Len(content) - extra_len, content \o postfix)
    ELSE LET ell == self.post_ellipsis \o postfix
             max_length == get_limit(self, content, Len(ell))
             cut == TruncateLoop(content, max_length)
         IN  IF cut = IndexError THEN Raised
             ELSE LET text == SentenceBreak(self, cut)
                  IN  Returned(Len(text) - extra_len, text \o ell)

\* format_more had it counted the pre-ellipsis into the consumed length.
format_more_counting_ellipsis(self, content, offset, more, no_more) ==
    LET text == IF offset > 0 THEN self.pre_ellipsis \o SliceFrom(content, offset)
                ELSE content
    IN  IF Len(text) <= get_limit(self, text, Len(no_more))
        THEN Returned(Len(text), text \o no_more)
        ELSE _format(self, text, more, 0)

\* format_more had it chosen the limit of its first test by the whole content.
format_more_classifying_content(self, content, offset, more, no_more) ==
    LET extra_len == IF offset > 0 THEN Len(self.pre_ellipsis) ELSE 0
        text == IF offset > 0 THEN self.pre_ellipsis \o SliceFrom(content, offset)
                ELSE content
    IN  IF Len(text) <= get_limit(self, content, Len(no_more))
        THEN Returned(Len(text) - extra_len, text \o no_more)
        ELSE _format(self, text, more, extra_len)

format_more(self, content, offset, more, no_more) ==
    LET extra_len == IF offset > 0 THEN Len(self.pre_ellipsis) ELSE 0
        text == IF offset > 0 THEN self.pre_ellipsis \o SliceFrom(content, offset)
                ELSE content
    IN  IF Len(text) <= get_limit(self, text, Len(no_more))
        THEN Returned(Len(text) - extra_len, text \o no_more)
        ELSE _format(self, text, more, extra_len)

format(self, content, postfix) == _format(self, content, postfix, 0).text


---------------------------------------------------------------------------
(* article_extract.py: ArticleSection and ArticleExtract.                   *)

\* An optional value: None, or the value wrapped.
None == << >>
Some(v) == << v >>

\* ArticleSection.__init__
ArticleSection(level, title, text) ==
    [level |-> level, title |-> title, text |-> text, subsections |-> << >>]

\* add_subsection had it put the subsection in front of the ones stored.
add_subsection_in_front(self, subsection) ==
    [self EXCEPT !.subsections = << subsection >> \o @]

RECURSIVE add_subsection(_, _)
add_subsection(self, subsection) ==
    IF subsection.level > self.level + 1 /\ self.subsections # << >>
    THEN LET last == Len(self.subsections)
         IN  [self EXCEPT !.subsections[last] = add_subsection(@, subsection)]
    ELSE [self EXCEPT !.subsections = Append(@, subsection)]

\* '%s' % title: a title that is None prints as the word None.
TitleStr(title) == IF title = None THEN << "N", "o", "n", "e" >> ELSE title[1]

RECURSIVE full_text(_)
RECURSIVE FullTextLoop(_, _, _)
\* The loop of full_text over subsections[i ..], text being what is built so far.
FullTextLoop(subsections, i, text) ==
    IF i > Len(subsections) THEN text
    ELSE FullTextLoop(subsections, i + 1,
            (IF text # << >> THEN text \o << "\n", "\n" >> ELSE text)
            \o TitleStr(subsections[i].title) \o << ":", "\n", "\n" >>
            \o full_text(subsections[i]))

\* full_text had it put the separator behind the section's own text even when
\* that text is empty.
full_text_separating_empty_text(self) ==
    IF self.subsections = << >> THEN self.text
    ELSE FullTextLoop(self.subsections, 1, self.text \o << "\n", "\n" >>)

full_text(self) == FullTextLoop(self.subsections, 1, self.text)

\* to_dict: the nested mapping {level, title, text, sections}.
RECURSIVE to_dict(_)
to_dict(self) ==
    [level |-> self.level, title |-> self.title, text |-> self.text,
     sections |-> [i \in 1..Len(self.subsections) |-> to_dict(self.subsections[i])]]

\* from_dict had it left the 'sections' of the mapping out.
from_dict_without_sections(data) == ArticleSection(data.level, data.title, data.text)

\* from_dict: the node, then every entry of 'sections' through add_subsection.
RECURSIVE from_dict(_)
RECURSIVE FromDictLoop(_, _, _)
FromDictLoop(section_extract, sections, i) ==
    IF i > Len(sections) THEN section_extract
    ELSE FromDictLoop(add_subsection(section_extract, from_dict(sections[i])),
                      sections, i + 1)
from_dict(data) ==
    FromDictLoop(ArticleSection(data.level, data.title, data.text), data.sections, 1)

\* ArticleExtract.to_json and from_json: the list of the sections' mappings
\* (json.dumps and json.loads carry integers, strings, null and lists as they are).
to_json(sections) == [i \in 1..Len(sections) |-> to_dict(sections[i])]
from_json(data) == [i \in 1..Len(data) |-> from_dict(data[i])]

\* The decimal digits and int() of one.
DigitChars == << "0", "1", "2", "3", "4", "5", "6", "7", "8", "9" >>
IsDigit(c) == \E i \in 1..Len(DigitChars) : DigitChars[i] = c
int(c) == (CHOOSE i \in 1..Len(DigitChars) : DigitChars[i] = c) - 1

\* s[o] of Python (o counts from 0); a character outside the alphabet beyond the end.
At(s, o) == IF o >= 0 /\ o < Len(s) THEN s[o + 1] ELSE "EOS"

\* ARTICLE_SPLITTER had it no lookahead: any U+FFFD U+FFFD matches.
SplitterAtAnyPair(s, o) ==
    At(s, o) = "F" /\ At(s, o + 1) = "F"

\* ARTICLE_SPLITTER matches at offset o: U+FFFD U+FFFD, with a digit and
\* U+FFFD U+FFFD ahead.
SplitterAt(s, o) ==
    /\ At(s, o) = "F" /\ At(s, o + 1) = "F"
    /\ IsDigit(At(s, o + 2))
    /\ At(s, o + 3) = "F" /\ At(s, o + 4) = "F"

\* ARTICLE_SPLITTER.split(data): the pieces between the matches, from the left.
RECURSIVE SplitFrom(_, _, _)
SplitFrom(s, start, o) ==
    IF o >= Len(s) THEN << SubSeq(s, start + 1, Len(s)) >>
    ELSE IF SplitterAt(s, o)
         THEN << SubSeq(s, start + 1, o) >> \o SplitFrom(s, o + 2, o + 2)
         ELSE SplitFrom(s, start, o + 1)
ARTICLE_SPLITTER_split(data) == SplitFrom(data, 0, 0)

\* The length of the run of characters of class C that starts at offset o.
RunLen(s, o, C) ==
    LET K == {k \in 0..Max(Len(s) - o, 0) : \A i \in o..(o + k - 1) : At(s, i) \in C}
    IN  CHOOSE k \in K : \A j \in K : j <= k

\* The tail of ARTICLE_SECTION, \s*(?:|\n+(.*))$, from offset te: after b
\* whitespace characters either the string ends (or its last newline is left),
\* or a newline starts the text.
TailEnd(s, pos) ==
    pos = Len(s) \/ (pos = Len(s) - 1 /\ At(s, pos) = "\n")
TailText(s, pos) == At(s, pos) = "\n"
TailOk(s, te) ==
    \E b \in 0..RunLen(s, te, Whitespace) : TailEnd(s, te + b) \/ TailText(s, te + b)
\* The title [^\n]+? may be s[ts : te].
TitleOk(s, ts, te) ==
    /\ ts < te /\ te <= Len(s)
    /\ \A i \in ts..(te - 1) : At(s, i) # "\n"
    /\ TailOk(s, te)

\* m.groups() of a match that is None: 'NoneType' object has no attribute 'groups'.
AttributeError == << "AttributeError" >>

NoMatch == [matched |-> FALSE, level |-> "", title |-> << >>, text |-> None]

\* ARTICLE_SECTION.match(section): the groups (level, title, text), text None
\* when no body follows.  The first \s* is greedy, the title lazy, the second
\* \s* greedy, and the empty alternative is tried before the body.
ARTICLE_SECTION_match(s) ==
    IF ~(IsDigit(At(s, 0)) /\ At(s, 1) = "F" /\ At(s, 2) = "F") THEN NoMatch
    ELSE LET A == {a \in 0..RunLen(s, 3, Whitespace) :
                      \E te \in (3 + a + 1)..Len(s) : TitleOk(s, 3 + a, te)}
         IN  IF A = {} THEN NoMatch
             ELSE LET a   == CHOOSE x \in A : \A y \in A : y <= x
                      ts  == 3 + a
                      TE  == {te \in (ts + 1)..Len(s) : TitleOk(s, ts, te)}
                      te  == CHOOSE x \in TE : \A y \in TE : x <= y
                      B   == {b \in 0..RunLen(s, te, Whitespace) :
                                 TailEnd(s, te + b) \/ TailText(s, te + b)}
                      b   == CHOOSE x \in B : \A y \in B : y <= x
                      pos == te + b
                  IN  [matched |-> TRUE, level |-> At(s, 0),
                       title |-> SubSeq(s, ts + 1, te),
                       text |-> IF TailEnd(s, pos) THEN None
                                ELSE Some(SliceFrom(s, pos + RunLen(s, pos, {"\n"})))]

\* One pass of the loop over split_data[1:]: the groups of the match join
\* section_bits; a segment that does not match raises.
SectionBit(m, rest) ==
    IF ~m.matched \/ rest.raised THEN [raised |-> TRUE, bits |-> << >>]
    ELSE [raised |-> FALSE,
          bits |-> << [level |-> int(m.level), title |-> Some(m.title),
                       text |-> IF m.text = None THEN << >> ELSE m.text[1]] >>
                   \o rest.bits]

RECURSIVE SectionBits(_, _)
SectionBits(split_data, i) ==
    IF i > Len(split_data) THEN [raised |-> FALSE, bits |-> << >>]
    ELSE SectionBit(ARTICLE_SECTION_match(strip(split_data[i])),
                    SectionBits(split_data, i + 1))

\* The renumbering had it only shifted the levels down to start at 0.
RenumberByShift(section_bits) ==
    LET section_levels == {section_bits[i].level : i \in 1..Len(section_bits)}
    IN  [l \in section_levels |->
            l - (CHOOSE m \in section_levels : \A k \in section_levels : m <= k)]

\* levels: every raw level that occurs, mapped to its rank among them.
Renumber(section_bits) ==
    LET section_levels == {section_bits[i].level : i \in 1..Len(section_bits)}
    IN  [l \in section_levels |-> Cardinality({k \in section_levels : k < l})]

\* The loop that builds the tree from section_bits[i ..].
RECURSIVE BuildSections(_, _, _, _)
BuildSections(sections, section_bits, levels, i) ==
    IF i > Len(section_bits) THEN sections
    ELSE LET level == levels[section_bits[i].level]
             section == ArticleSection(level, section_bits[i].title,
                                       section_bits[i].text)
             last == Len(sections)
         IN  BuildSections(
                 IF level = 0 THEN Append(sections, section)
                 ELSE [sections EXCEPT ![last] = add_subsection(@, section)],
                 section_bits, levels, i + 1)

\* The tree had an intro without text and without subsections been left out.
FromSectionBitsDroppingEmptyIntro(intro, bits_read) ==
    IF bits_read.raised THEN [raised |-> TRUE, sections |-> AttributeError]
    ELSE LET sections == BuildSections(<< intro >>, bits_read.bits,
                                       Renumber(bits_read.bits), 1)
         IN  [raised |-> FALSE,
              sections |-> IF sections[1].text = << >> /\ sections[1].subsections = << >>
                           THEN Tail(sections) ELSE sections]

\* ArticleExtract._from_string: the sections, or the AttributeError raised.
FromSectionBits(intro, bits_read) ==
    IF bits_read.raised THEN [raised |-> TRUE, sections |-> AttributeError]
    ELSE [raised |-> FALSE,
          sections |-> BuildSections(<< intro >>, bits_read.bits,
                                     Renumber(bits_read.bits), 1)]

\* _from_string had it kept the intro as it stands in the extract.
FromSplitDataKeepingWhitespace(split_data) ==
    FromSectionBits(ArticleSection(0, None, split_data[1]),
                    SectionBits(split_data, 2))

FromSplitData(split_data) ==
    FromSectionBits(ArticleSection(0, None, strip(split_data[1])),
                    SectionBits(split_data, 2))
_from_string(data) == FromSplitData(ARTICLE_SPLITTER_split(data))

---------------------------------------------------------------------------
(* FormatSpec: the formatter's calls on one section text, then the          *)
(* pagination of that text by send_sms_content.                             *)

\* The characters of a section text.
TextAlphabet == {"a", " ", ".", "U"}

Strings(alphabet, n) == UNION {[1..k -> alphabet] : k \in 0..n}

\* A section's full_text() is empty or holds a word: the parser strips the
\* texts and the titles it joins.
SectionTexts == {s \in Strings(TextAlphabet, MaxLen) : s = << >> \/ FirstNonSpace(s) > 0}

\* The scaled ContentFormatter defaults '...' and ' ...'.
PreEllipsis == << "." >>
PostEllipsis == << " ", "." >>

\* The configured pairs (msg_more_content_suffix, msg_no_more_content_suffix).
SuffixPairs == { << <<"+">>, <<"-">> >>, << << >>, << >> >>, << << >>, <<"-">> >>,
                 << <<"+">>, << >> >>, << <<"U">>, <<"-">> >> }

\* WikipediaConfig with scaled lengths: the limits and the threshold of the
\* formatters, the two switches of the SMS delivery, the configured texts.
WikipediaConfig(max_ussd, max_ussd_unicode, send_sms, send_more, more, no_more) ==
    [max_ussd_content_length |-> max_ussd,
     max_ussd_unicode_length |-> max_ussd_unicode,
     max_sms_content_length |-> AsciiLimit,
     max_sms_unicode_length |-> UnicodeLimit,
     sentence_break_threshold |-> SmsSentenceBreakThreshold,
     send_sms_content |-> send_sms,
     send_more_sms_content |-> send_more,
     include_url_in_sms |-> FALSE,
     content_cache_time |-> 0,
     msg_prompt |-> << "?" >>,
     msg_no_results |-> << "N", " " >>,
     msg_error |-> << "E" >>,
     msg_invalid_section |-> << "I" >>,
     msg_more_content_suffix |-> more,
     msg_no_more_content_suffix |-> no_more,
     msg_ussd_suffix |-> << "*" >>]

get_sms_formatter(cfg) ==
    ContentFormatter(cfg.max_sms_content_length, cfg.max_sms_unicode_length,
                     PreEllipsis, PostEllipsis, cfg.sentence_break_threshold)
get_ussd_formatter(cfg) ==
    ContentFormatter(cfg.max_ussd_content_length, cfg.max_ussd_unicode_length,
                     PreEllipsis, PostEllipsis, 0)

\* The configuration of the formatting calls: the USSD limits are the SMS ones.
FormatConfig ==
    WikipediaConfig(AsciiLimit, UnicodeLimit, TRUE, TRUE, more_suffix, no_more_suffix)

NoCall == [op |-> "none", self |-> ContentFormatter(0, 0, << >>, << >>, 0), content |-> << >>,
           offset |-> 0, postfix |-> << >>, result |-> Returned(0, << >>)]

FormatInit ==
    /\ ussd_text \in SectionTexts
    /\ sms_text = normalize_whitespace(ussd_text)
    /\ \E pair \in SuffixPairs : more_suffix = pair[1] /\ no_more_suffix = pair[2]
    /\ sms_offset = 0
    /\ more_state = "content"
    /\ call = NoCall
    /\ delivered = << >>

\* get_ussd_formatter(config).format(ussd_text, config.msg_ussd_suffix), before
\* any SMS is sent; the suffix is one of the session's two.
Format ==
    /\ more_state = "content" /\ call = NoCall
    /\ \E postfix \in {more_suffix, no_more_suffix} :
          call' = [op |-> "format", self |-> get_ussd_formatter(FormatConfig),
                   content |-> ussd_text, offset |-> 0, postfix |-> postfix,
                   result |-> [_format(get_ussd_formatter(FormatConfig), ussd_text,
                                       postfix, 0) EXCEPT !.n = 0]]
    /\ UNCHANGED << ussd_text, sms_text, more_suffix, no_more_suffix, sms_offset,
                    more_state, delivered, parse_vars, worker_vars >>

\* formatter.format_more(sms_text, offset, more, no_more) at any offset.
FormatMore ==
    /\ more_state = "content" /\ call = NoCall
    /\ \E offset \in 0..Len(sms_text) :
          call' = [op |-> "format_more", self |-> get_sms_formatter(FormatConfig),
                   content |-> sms_text, offset |-> offset, postfix |-> more_suffix,
                   result |-> format_more(get_sms_formatter(FormatConfig), sms_text, offset,
                                          more_suffix, no_more_suffix)]
    /\ UNCHANGED << ussd_text, sms_text, more_suffix, no_more_suffix, sms_offset,
                    more_state, delivered, parse_vars, worker_vars >>

\* The body of a chunk: the returned text without the pre-ellipsis and
\* without what follows the n consumed characters.
ChunkBody(self, offset, result) ==
    LET extra_len == IF offset > 0 THEN Len(self.pre_ellipsis) ELSE 0
    IN  SubSeq(result.text, extra_len + 1, extra_len + result.n)

\* send_sms_content's formatting step: one chunk, the offset advanced by
\* content_len + 1, the state ended at the end of the text.
Paginate ==
    /\ more_state \in {"content", "more"}
    /\ more_state = "content" => call = NoCall
    /\ LET self == get_sms_formatter(FormatConfig)
           result == format_more(self, sms_text, sms_offset, more_suffix,
                                 no_more_suffix)
           offset == sms_offset + result.n + 1
       IN  /\ call' = [op |-> "send_sms_content", self |-> self,
                       content |-> sms_text, offset |-> sms_offset,
                       postfix |-> more_suffix, result |-> result]
           /\ IF result.raised
              THEN /\ more_state' = "raised"
                   /\ UNCHANGED << sms_offset, delivered >>
              ELSE /\ sms_offset' = offset
                   /\ more_state' = IF offset >= Len(sms_text) THEN "None" ELSE "more"
                   /\ delivered' = (IF more_state = "more" THEN delivered \o <<" ">>
                                    ELSE delivered)
                                   \o ChunkBody(self, sms_offset, result)
    /\ UNCHANGED << ussd_text, sms_text, more_suffix, no_more_suffix, parse_vars,
                    worker_vars >>

\* format_more of a formatter configured with the sentence_break_threshold 1,
\* on the whole text.
FormatMoreThreshold ==
    /\ more_state = "content" /\ call = NoCall
    /\ \E offset \in {0}, t \in {1} :
          LET self == ContentFormatter(AsciiLimit, UnicodeLimit, PreEllipsis,
                                       PostEllipsis, t)
          IN  call' = [op |-> "format_more", self |-> self,
                       content |-> sms_text, offset |-> offset, postfix |-> more_suffix,
                       result |-> format_more(self, sms_text, offset,
                                              more_suffix, no_more_suffix)]
    /\ UNCHANGED << ussd_text, sms_text, more_suffix, no_more_suffix, sms_offset,
                    more_state, delivered, parse_vars, worker_vars >>

FormatNext == Format \/ FormatMore \/ FormatMoreThreshold \/ Paginate

---------------------------------------------------------------------------
(* FormatMisuseSpec: the same calls made by a caller that misuses the       *)
(* formatter: suffixes that leave no room for content, negative offsets.    *)

\* A suffix of n characters.
LongSuffix(c, n) == [i \in 1..n |-> c]

\* Pairs of suffixes that, with the post-ellipsis, reach the ASCII limit or
\* pass it by up to three characters; and one pair that leaves room.
MisusePairs ==
    { << LongSuffix("+", n), LongSuffix("-", n) >> :
         n \in (AsciiLimit - Len(PostEllipsis))..(AsciiLimit + 1) }
    \cup { << <<"+">>, <<"-">> >> }

FormatMisuseInit ==
    /\ ussd_text \in SectionTexts
    /\ sms_text = normalize_whitespace(ussd_text)
    /\ \E pair \in MisusePairs : more_suffix = pair[1] /\ no_more_suffix = pair[2]
    /\ sms_offset = 0
    /\ more_state = "content"
    /\ call = NoCall
    /\ delivered = << >>

\* formatter.format_more(sms_text, offset, more, no_more) at an offset below 0.
FormatMoreNegativeOffset ==
    /\ more_state = "content" /\ call = NoCall
    /\ \E offset \in (0 - MaxLen)..(0 - 1) :
          call' = [op |-> "format_more", self |-> get_sms_formatter(FormatConfig),
                   content |-> sms_text, offset |-> offset, postfix |-> more_suffix,
                   result |-> format_more(get_sms_formatter(FormatConfig), sms_text, offset,
                                          more_suffix, no_more_suffix)]
    /\ UNCHANGED << ussd_text, sms_text, more_suffix, no_more_suffix, sms_offset,
                    more_state, delivered, parse_vars, worker_vars >>

\* send_sms_content's formatting step for a 'more' request, the delivered text
\* not recorded: one chunk from the stored offset, the offset advanced by
\* content_len + 1, the state ended at the end of the text or by an exception.
SendMore ==
    /\ more_state \in {"content", "more"}
    /\ more_state = "content" => call = NoCall
    /\ call' = [op |-> "send_sms_content", self |-> get_sms_formatter(FormatConfig),
                content |-> sms_text, offset |-> sms_offset, postfix |-> more_suffix,
                result |-> format_more(get_sms_formatter(FormatConfig), sms_text,
                                       sms_offset, more_suffix, no_more_suffix)]
    /\ IF call'.result.raised
       THEN more_state' = "raised" /\ UNCHANGED sms_offset
       ELSE /\ sms_offset' = sms_offset + call'.result.n + 1
            /\ more_state' = IF sms_offset' >= Len(sms_text) THEN "None" ELSE "more"
    /\ UNCHANGED << ussd_text, sms_text, more_suffix, no_more_suffix, delivered,
                    parse_vars, worker_vars >>

FormatMisuseNext == Format \/ FormatMore \/ FormatMoreNegativeOffset \/ SendMore



---------------------------------------------------------------------------
(* Properties of the formatter and the pagination driver (FormatSpec).     *)

\* The limit that the class of a string selects.
LimitOf(self, string) ==
    IF is_unicode(string) THEN self.unicode_limit ELSE self.ascii_limit

\* Some whitespace-delimited word of s is longer than n.
HasWordLongerThan(s, n) ==
    \E i \in 1..Len(s) : \E j \in i..Len(s) :
        /\ j - i + 1 > n
        /\ \A k \in i..j : s[k] \notin Whitespace

\* The prefix of a chunk that starts at offset.
PrefixAt(self, offset) == IF offset > 0 THEN self.pre_ellipsis ELSE << >>

\* The text of a chunk is the prefix, n characters of content from offset, and suffix.
ChunkIs(c, suffix) ==
    /\ ~c.result.raised
    /\ c.result.n >= 0
    /\ c.offset + c.result.n <= Len(c.content)
    /\ c.result.text = PrefixAt(c.self, c.offset)
                       \o SubSeq(c.content, c.offset + 1, c.offset + c.result.n)
                       \o suffix

IsFormatMore(c) == c.op \in {"format_more", "send_sms_content"}

\* C1: paginating from offset 0 by consumed_length + 1, the chunk bodies,
\* joined by the one whitespace character of each split point, are the whole
\* text once the driver has stopped, and it stops only at the end of the text.
C1_PaginationComplete ==
    more_state = "None" => delivered = sms_text /\ sms_offset >= Len(sms_text)

\* C3: the text format and format_more return is no longer than the limit its
\* own class selects, unless one word of the input is longer than that limit.
C3_FitInvariant ==
    call.op # "none" /\ ~call.result.raised =>
        \/ Len(call.result.text) <= LimitOf(call.self, call.result.text)
        \/ HasWordLongerThan(call.content, LimitOf(call.self, call.result.text))

\* C4: format_more returns (n, text) with text = P + content[offset : offset + n]
\* + S, where P is the pre-ellipsis exactly when offset > 0 and S is no_more,
\* more or post_ellipsis + more; the whole text, the pre-ellipsis included, is
\* within the limit of the window it was cut from.
C4_ConsumedLengthExact ==
    IsFormatMore(call) =>
        /\ \E suffix \in {no_more_suffix, more_suffix,
                          call.self.post_ellipsis \o more_suffix} :
              ChunkIs(call, suffix)
        /\ Len(call.result.text)
             <= LimitOf(call.self, PrefixAt(call.self, call.offset)
                                   \o SliceFrom(call.content, call.offset))

\* C4's case: a chunk from a non-zero offset that is cut short.
C4_Witness ==
    /\ IsFormatMore(call)
    /\ call.offset > 0
    /\ call.result.n > 0
    /\ call.offset + call.result.n < Len(call.content)
    /\ ChunkIs(call, call.self.post_ellipsis \o more_suffix)

\* C5: the chunk carries the no_more suffix exactly when it consumes all of
\* content[offset:], and a chunk that carries the more suffix leaves some of
\* the text undelivered.
C5_SuffixTellsRemaining ==
    IsFormatMore(call) /\ ~call.result.raised =>
        LET consumes_all == call.offset + call.result.n >= Len(call.content)
        IN  /\ ChunkIs(call, no_more_suffix) <=> consumes_all
            /\ more_suffix # no_more_suffix
                 /\ (\/ ChunkIs(call, more_suffix)
                     \/ ChunkIs(call, call.self.post_ellipsis \o more_suffix))
               => ~consumes_all

---------------------------------------------------------------------------
(* Properties of the misused formatter (FormatMisuseSpec).                 *)

\* The text a call measures: content[offset:] behind its prefix.
Window(c) == PrefixAt(c.self, c.offset) \o SliceFrom(c.content, c.offset)

\* Neither suffix of the session leaves room for content: with the
\* post-ellipsis it is as long as the limit of the call's text, or longer.
NoRoom(c) ==
    /\ c.op # "none" /\ c.offset >= 0
    /\ \A s \in {more_suffix, no_more_suffix} :
          Len(c.self.post_ellipsis \o s) >= LimitOf(c.self, Window(c))

\* C12: when the suffix leaves no room for content, format and format_more
\* raise nothing: they return the full suffix behind an empty body (or behind
\* the whole text, where it still fits without the post-ellipsis).
C12_NoRoomDegrades ==
    NoRoom(call) =>
        /\ ~call.result.raised
        /\ \E s \in {more_suffix, no_more_suffix} :
           \E suffix \in {s, call.self.post_ellipsis \o s} :
              call.result.text \in {suffix, PrefixAt(call.self, call.offset) \o suffix,
                                    Window(call) \o suffix}

\* C34: every delivery of the pagination moves sms_offset strictly forward, so
\* that, whatever the limits and suffixes, finitely many 'more' requests bring
\* it to the end of the text and end the 'more' state.
C34_PaginationTerminates ==
    call.op = "send_sms_content" /\ ~call.result.raised =>
        /\ call.result.n >= 0
        /\ sms_offset > call.offset

\* The class of the error a misuse of the formatter is to be answered with.
FormatConstraintError == << "FormatConstraintError" >>

\* C13: format_more called with a negative offset raises the
\* formatter-constraint error and returns no chunk.
C13_NegativeOffsetRejected ==
    call.op = "format_more" /\ call.offset < 0 =>
        /\ call.result.raised
        /\ call.result.text = FormatConstraintError


---------------------------------------------------------------------------
(* Properties of the truncation (FormatSpec).                               *)

\* The positions of s at which a whitespace-delimited word ends.
WordEnds(s) ==
    {k \in 1..Len(s) : s[k] \notin Whitespace
                        /\ (k = Len(s) \/ s[k + 1] \in Whitespace)}

SetMax(S) == CHOOSE x \in S : \A y \in S : y <= x
SetMin(S) == CHOOSE x \in S : \A y \in S : x <= y

\* What follows the body of a truncated text, and the room left for the body.
EllipsisAndPostfix(c) == c.self.post_ellipsis \o c.postfix
MaxLength(c) == LimitOf(c.self, Window(c)) - Len(EllipsisAndPostfix(c))

\* The text of the call does not fit with its suffix.
DoesNotFit(c) ==
    IF c.op = "format"
    THEN Len(Window(c)) > LimitOf(c.self, Window(c)) - Len(c.postfix)
    ELSE /\ Len(Window(c)) > LimitOf(c.self, Window(c)) - Len(no_more_suffix)
         /\ Len(Window(c)) > LimitOf(c.self, Window(c)) - Len(more_suffix)

Truncating(c) == c.op # "none" /\ c.offset >= 0 /\ ~c.result.raised /\ DoesNotFit(c)

\* '. ' occurs within the last t characters of the body.
SentenceBreakWithin(body, t) ==
    \E i \in Max(1, Len(body) - t + 1)..(Len(body) - 1) :
        body[i] = "." /\ body[i + 1] = " "

\* The word ends of the call's text that fit into the room for the body.
FittingWordEnds(c) == {k \in WordEnds(Window(c)) : k <= MaxLength(c)}

\* The longest prefix of the call's text that ends with a word and fits.
LongestWordPrefix(c) == SubSeq(Window(c), 1, SetMax(FittingWordEnds(c)))

\* The first word fits and cutting after the last fitting word leaves no
\* sentence break to cut at again.
WordCut(c) ==
    /\ Truncating(c)
    /\ FittingWordEnds(c) # {}
    /\ ~(c.self.sentence_break_threshold > 0
         /\ SentenceBreakWithin(LongestWordPrefix(c), c.self.sentence_break_threshold))

\* C21: when the content does not fit, its first word fits and no sentence
\* re-cut applies, the body is the longest prefix of the text that ends with a
\* word and is no longer than limit - len(post_ellipsis + postfix), and
\* post_ellipsis + postfix follows it.
C21_LongestWordPrefixKept ==
    WordCut(call) => call.result.text = LongestWordPrefix(call) \o EllipsisAndPostfix(call)

\* C21 as amended: the same for a text that does not end in whitespace.
C21_LongestWordPrefixKeptUnlessTrailingSpace ==
    WordCut(call) /\ Window(call)[Len(Window(call))] \notin Whitespace =>
        call.result.text = LongestWordPrefix(call) \o EllipsisAndPostfix(call)

\* C21's case: a text of three words or more, cut after its second word at
\* exactly the room there is.
C21_Witness ==
    /\ WordCut(call) /\ Window(call)[Len(Window(call))] \notin Whitespace
    /\ Cardinality(FittingWordEnds(call)) >= 2
    /\ SetMax(FittingWordEnds(call)) = MaxLength(call)
    /\ call.result.text = LongestWordPrefix(call) \o EllipsisAndPostfix(call)

\* The first word of the call's text is longer than the room for the body.
FirstWordTooLong(c) ==
    /\ Truncating(c)
    /\ SetMin(WordEnds(Window(c))) - FirstNonSpace(Window(c)) + 1 > MaxLength(c)

\* C22: when the first word of the text is longer than max_length, the body
\* is the first max_length characters of the text, at any offset.
C22_LongWordSplit ==
    FirstWordTooLong(call) =>
        call.result.text = SubSeq(Window(call), 1, MaxLength(call))
                           \o EllipsisAndPostfix(call)

\* C22 as amended: the body is the first max_length characters of the text
\* behind its leading whitespace.
C22_LongWordSplitBehindLeadingSpace ==
    FirstWordTooLong(call) =>
        call.result.text = SubSeq(Window(call), FirstNonSpace(Window(call)),
                                  FirstNonSpace(Window(call)) + MaxLength(call) - 1)
                           \o EllipsisAndPostfix(call)

\* C22's case: a word split in the middle in a text that starts at an offset
\* above 0.
C22_Witness ==
    /\ FirstWordTooLong(call) /\ call.offset > 0
    /\ MaxLength(call) > Len(call.self.pre_ellipsis)
    /\ call.result.text = SubSeq(Window(call), 1, MaxLength(call))
                          \o EllipsisAndPostfix(call)

\* The positions of the '.' of every '. ' in the body.
SentenceBreaks(body) ==
    {i \in 1..(Len(body) - 1) : body[i] = "." /\ body[i + 1] = " "}

\* The body after the sentence step, for the word-truncated body and the
\* threshold t: cut behind the '.' of the last '. ' when one lies within the
\* last t characters.
SentenceCut(body, t) ==
    IF t > 0 /\ SentenceBreakWithin(body, t)
    THEN SubSeq(body, 1, SetMax(SentenceBreaks(body)))
    ELSE body

\* C23: on the truncation path, with a threshold t > 0 and a '. ' within the
\* last t characters of the word-truncated body, the body ends with the '.' of
\* the last '. ', at least 1 and fewer than t characters shorter; otherwise,
\* and always with t <= 0, the word-truncated body is kept.
C23_SentenceAwareTruncation ==
    Truncating(call) =>
        LET body == TruncateLoop(Window(call), MaxLength(call))
            t == call.self.sentence_break_threshold
        IN  /\ call.result.text = SentenceCut(body, t) \o EllipsisAndPostfix(call)
            /\ SentenceCut(body, t) # body =>
                  /\ t > 0
                  /\ Len(body) - Len(SentenceCut(body, t)) \in 1..(t - 1)
                  /\ SentenceCut(body, t)[Len(SentenceCut(body, t))] = "."

\* C23's case: a body with a '. ' that lies before its last t characters is
\* kept as the words left it.
C23_Witness ==
    /\ Truncating(call)
    /\ call.self.sentence_break_threshold > 0
    /\ SentenceBreaks(TruncateLoop(Window(call), MaxLength(call))) # {}
    /\ call.result.text = TruncateLoop(Window(call), MaxLength(call))
                          \o EllipsisAndPostfix(call)

\* The text ends with the suffix.
EndsWith(text, suffix) ==
    /\ Len(suffix) <= Len(text)
    /\ SubSeq(text, Len(text) - Len(suffix) + 1, Len(text)) = suffix

\* C24: format_more measures against the limit of its own window,
\* pre_ellipsis + content[offset:]: the ASCII limit when the window holds no
\* code point >= U+0080, whatever content[:offset] holds, the unicode limit
\* otherwise.
C24_LimitOfTheWindow ==
    IsFormatMore(call) /\ ~call.result.raised =>
        LET limit == IF \E i \in 1..Len(Window(call)) : Window(call)[i] \in NonAscii
                     THEN call.self.unicode_limit ELSE call.self.ascii_limit
        IN  IF Len(Window(call)) + Len(no_more_suffix) <= limit
            THEN call.result.text = Window(call) \o no_more_suffix
            ELSE IF Len(Window(call)) + Len(more_suffix) <= limit
            THEN call.result.text = Window(call) \o more_suffix
            ELSE /\ EndsWith(call.result.text, EllipsisAndPostfix(call))
                 /\ Len(call.result.text) <= limit

\* C24's case: the head of the content holds a code point >= U+0080, the
\* window does not, and the chunk is longer than the unicode limit.
C24_Witness ==
    /\ IsFormatMore(call) /\ call.offset > 0
    /\ is_unicode(SubSeq(call.content, 1, call.offset))
    /\ ~is_unicode(Window(call))
    /\ Len(call.result.text) > call.self.unicode_limit
    /\ call.result.text = Window(call) \o no_more_suffix
    /\ no_more_suffix # more_suffix

\* C25: format returns content + postfix, nothing cut and no ellipsis, when
\* len(content) <= limit(content) - len(postfix), the empty content included.
C25_FitsUnchanged ==
    call.op = "format"
      /\ Len(call.content) <= LimitOf(call.self, call.content) - Len(call.postfix) =>
        /\ ~call.result.raised
        /\ call.result.text = call.content \o call.postfix

\* C25's case: a content that with its postfix is exactly as long as the limit.
C25_Witness ==
    /\ call.op = "format"
    /\ call.content # << >> /\ call.postfix # << >>
    /\ Len(call.content) = LimitOf(call.self, call.content) - Len(call.postfix)
    /\ call.result.text = call.content \o call.postfix

---------------------------------------------------------------------------
(* ParseSpec: an extract is written from an outline, parsed, serialized     *)
(* and deserialized.                                                        *)

\* The heading-level digits of the markup.
RawLevels == {"2", "3", "4"}
\* The title of the i-th heading.
Letters == << "a", "b", "c", "d", "e", "f" >>

\* What an extract holds before its first heading is nothing, or a paragraph
\* that starts with U+FFFD U+FFFD and a digit, a sentinel pair that opens no
\* marker, and ends in a blank line.
\* What follows a heading's marker: the title and a body with blank lines
\* around them; the title alone; nothing at all.
Shapes == {"body", "bare", "empty"}
Segment(shape, letter) ==
    CASE shape = "body"  -> << " ", letter, " ", "\n", "\n", "x", "\n" >>
      [] shape = "bare"  -> << letter >>
      [] shape = "empty" -> << >>

Marker(digit) == << "F", "F", digit, "F", "F" >>

RECURSIVE Render(_, _)
Render(headings, i) ==
    IF i > Len(headings) THEN << >>
    ELSE Marker(headings[i].digit) \o Segment(headings[i].shape, Letters[i])
         \o Render(headings, i + 1)

Outlines ==
    UNION {[1..n -> [digit : RawLevels, shape : Shapes]] : n \in 0..MaxHeadings}

NotParsed == [raised |-> FALSE, sections |-> << >>]

ParseInit ==
    /\ outline \in Outlines
    /\ intro_text \in {<< >>, << "F", "F", "2", "x", "\n", "\n" >>}
    /\ raw_extract = intro_text \o Render(outline, 1)
    /\ extract = NotParsed
    /\ cached = << >>
    /\ restored = << >>
    /\ parse_pc = "data"

\* ArticleExtract(data)
Parse ==
    /\ parse_pc = "data"
    /\ extract' = _from_string(raw_extract)
    /\ parse_pc' = IF extract'.raised THEN "raised" ELSE "parsed"
    /\ UNCHANGED << outline, intro_text, raw_extract, cached, restored, fmt_vars, worker_vars >>

\* extract.to_json()
ToJson ==
    /\ parse_pc = "parsed"
    /\ cached' = to_json(extract.sections)
    /\ parse_pc' = "cached"
    /\ UNCHANGED << outline, intro_text, raw_extract, extract, restored, fmt_vars, worker_vars >>

\* ArticleExtract.from_json(cached)
FromJson ==
    /\ parse_pc = "cached"
    /\ restored' = from_json(cached)
    /\ parse_pc' = "restored"
    /\ UNCHANGED << outline, intro_text, raw_extract, extract, cached, fmt_vars, worker_vars >>

ParseNext == Parse \/ ToJson \/ FromJson


---------------------------------------------------------------------------
(* Properties of the parser (ParseSpec).                                   *)

\* The nodes of a tree in document order, each with its parent's title and
\* level; a root-level section has parent level -1.
RECURSIVE NodesOf(_, _, _)
RECURSIVE NodesOfList(_, _, _, _)
NodesOfList(list, i, parent, plevel) ==
    IF i > Len(list) THEN << >>
    ELSE NodesOf(list[i], parent, plevel) \o NodesOfList(list, i + 1, parent, plevel)
NodesOf(section, parent, plevel) ==
    << [level |-> section.level, title |-> section.title, text |-> section.text,
        parent |-> parent, plevel |-> plevel, full |-> full_text(section)] >>
    \o NodesOfList(section.subsections, 1, section.title, section.level)
Nodes(sections) == NodesOfList(sections, 1, None, -1)

Built == parse_pc \in {"parsed", "cached", "restored"}
Tree == Nodes(extract.sections)

\* The renumbered level the i-th heading of the outline should get: the rank of
\* its digit among the digits that occur.
Rank(i) ==
    Cardinality({d \in {outline[j].digit : j \in 1..Len(outline)} :
                    int(d) < int(outline[i].digit)})
\* The node of the i-th heading: the one that carries its title.
NodeOfHeading(tree, i) ==
    LET I == {k \in 1..Len(tree) : tree[k].title = Some(<< Letters[i] >>)}
    IN  tree[CHOOSE k \in I : TRUE]

\* C6: every subsection has a level strictly greater than the level of the
\* section it is attached to.
C6_SubsectionsDeeper ==
    Built => LET tree == Tree
             IN  \A k \in 1..Len(tree) :
                    tree[k].plevel # -1 => tree[k].level > tree[k].plevel

\* C7: a heading of level L > 0 is a child of the most recent preceding
\* section (the intro included) whose level is lower than L; a heading of
\* level 0 is a root-level section.
C7_NearestAncestor ==
    Built => \A i \in 1..Len(outline) :
        LET node == NodeOfHeading(Tree, i)
            J == {j \in 1..(i - 1) : Rank(j) < Rank(i)}
            j == CHOOSE x \in J : \A y \in J : y <= x
        IN  IF Rank(i) = 0 THEN node.plevel = -1
            ELSE /\ node.plevel # -1
                 /\ node.parent = IF J = {} THEN None ELSE Some(<< Letters[j] >>)

\* C8: from_json(to_json(T)) is the tree T: the same shape, the same
\* (level, title, text) in document order and the same full_text() of every node.
C8_RoundTrip ==
    parse_pc = "restored" =>
        /\ restored = extract.sections
        /\ Nodes(restored) = Tree

\* C8's case: a tree three levels deep whose first subsection skipped a level
\* has been serialized and deserialized.
C8_Witness ==
    /\ parse_pc = "restored"
    /\ \E i \in 1..Len(restored) :
          /\ Len(restored[i].subsections) >= 2
          /\ restored[i].subsections[1].level > restored[i].level + 1
          /\ \E k \in 1..Len(restored[i].subsections) :
                restored[i].subsections[k].subsections # << >>

\* C9: the levels of the non-intro sections are exactly 0 .. k-1, k the number
\* of distinct heading digits, and a heading is deeper than another exactly
\* when its digit is greater.
C9_LevelDensity ==
    Built =>
        LET tree == Tree
            level == [i \in 1..Len(outline) |-> NodeOfHeading(tree, i).level]
        IN  /\ {tree[k].level : k \in 2..Len(tree)}
                 = 0..(Cardinality({outline[j].digit : j \in 1..Len(outline)}) - 1)
            /\ \A i, j \in 1..Len(outline) :
                  int(outline[i].digit) < int(outline[j].digit) <=> level[i] < level[j]

\* C9's case: an extract whose headings use the digits 2 and 4 only.
C9_Witness ==
    /\ parse_pc = "parsed"
    /\ {outline[j].digit : j \in 1..Len(outline)} = {"2", "4"}
    /\ \E k \in 2..Len(Tree) : Tree[k].level = 1

\* C10: exactly one root-level section has title None, it is sections[0], and
\* every other section of the tree has a non-empty title.
C10_OneIntro ==
    Built =>
        /\ Cardinality({i \in 1..Len(extract.sections) :
                           extract.sections[i].title = None}) = 1
        /\ extract.sections[1].title = None
        /\ LET tree == Tree
           IN  \A k \in 2..Len(tree) :
                  tree[k].title # None /\ tree[k].title[1] # << >>

\* C10's case: an extract with an empty intro, whose first heading is not of
\* the top level and is followed by a top-level one.
C10_Witness ==
    /\ parse_pc = "parsed"
    /\ extract.sections[1].text = << >>
    /\ extract.sections[1].subsections # << >>
    /\ Len(extract.sections) >= 2

\* C11: the level of the intro is a value apart from the renumbering: no titled
\* section of the tree has the level the intro has.
C11_IntroLevelDistinct ==
    Built => LET tree == Tree
             IN  \A k \in 2..Len(tree) : tree[k].level # extract.sections[1].level

\* The class of the parse error a malformed extract is to be answered with.
MalformedExtractError == << "MalformedExtractError" >>

\* Some heading marker of the outline is followed by nothing: by the end of
\* the extract or directly by the next marker.
MalformedOutline == \E i \in 1..Len(outline) : outline[i].shape = "empty"

\* C14: parsing an extract with a heading marker whose segment is not digit,
\* sentinel, title, optional body raises the malformed-extract error, and no
\* tree is returned for it.
C14_MalformedExtractSignalled ==
    parse_pc # "data" /\ MalformedOutline =>
        /\ parse_pc = "raised"
        /\ extract.raised
        /\ extract.sections = MalformedExtractError

\* C26: an extract without any section marker parses to the intro section
\* alone: level 0, title None, no subsections, and the stripped input as its
\* text; for the empty string that text is ''.
C26_NoMarkerOnlyIntro ==
    parse_pc \in {"parsed", "raised"} /\ outline = << >> =>
        /\ ~extract.raised
        /\ extract.sections
             = << [level |-> 0, title |-> None, text |-> strip(raw_extract),
                   subsections |-> << >>] >>
        /\ raw_extract = << >> => extract.sections[1].text = << >>

\* C26's case: an extract without markers that ends in blank lines has been
\* parsed to an intro holding the text without them.
C26_Witness ==
    /\ parse_pc = "parsed" /\ outline = << >>
    /\ raw_extract = << "F", "F", "2", "x", "\n", "\n" >>
    /\ Len(extract.sections) = 1
    /\ extract.sections[1].text = << "F", "F", "2", "x" >>

\* C27: the tree visited depth-first, a section before its subsections, root
\* sections in list order and subsections in stored order, gives the intro and
\* then the section of every marker, in the order of the markers in the
\* extract, each once.
C27_DocumentOrder ==
    parse_pc = "parsed" =>
        LET tree == Tree
        IN  /\ Len(tree) = Len(outline) + 1
            /\ tree[1].title = None /\ tree[1].plevel = -1
            /\ \A i \in 1..Len(outline) :
                  /\ tree[i + 1].title = Some(<< Letters[i] >>)
                  /\ tree[i + 1].text
                       = IF outline[i].shape = "body" THEN << "x" >> ELSE << >>

\* C27's case: a tree three levels deep, with a root-level section behind the
\* nested ones.
C27_Witness ==
    /\ parse_pc = "parsed"
    /\ Len(outline) >= 4
    /\ Len(extract.sections) >= 3
    /\ \E k \in 1..Len(Tree) : Tree[k].level = 2
    /\ Tree[Len(Tree)].plevel = -1

\* The parts joined with a blank line between consecutive ones.
RECURSIVE JoinParts(_, _)
JoinParts(parts, i) ==
    IF i > Len(parts) THEN << >>
    ELSE parts[i] \o (IF i < Len(parts) THEN << "\n", "\n" >> ELSE << >>)
         \o JoinParts(parts, i + 1)

\* The rendering of a section: its own text when it has one, then every
\* subsection as its title, a colon, a blank line and its own rendering.
RECURSIVE Rendering(_)
Rendering(section) ==
    JoinParts((IF section.text = << >> THEN << >> ELSE << section.text >>)
              \o [i \in 1..Len(section.subsections) |->
                     section.subsections[i].title[1] \o << ":", "\n", "\n" >>
                     \o Rendering(section.subsections[i])], 1)

\* The sections of a tree, the nested ones included.
RECURSIVE Subtrees(_, _)
Subtrees(list, i) ==
    IF i > Len(list) THEN << >>
    ELSE << list[i] >> \o Subtrees(list[i].subsections, 1) \o Subtrees(list, i + 1)

\* C28: full_text() of a section is its own text followed by each subsection
\* rendered as '<title>:', a blank line and the subsection's full_text(),
\* depth-first in document order, a blank line between consecutive parts and
\* no separator in front when the section's own text is empty.
C28_FullTextRendering ==
    parse_pc = "parsed" =>
        LET all == Subtrees(extract.sections, 1)
        IN  \A k \in 1..Len(all) : full_text(all[k]) = Rendering(all[k])

\* C28's case: a section without text of its own and with two subsections.
C28_Witness ==
    /\ parse_pc = "parsed"
    /\ \E i \in 1..Len(extract.sections) :
          /\ extract.sections[i].text = << >>
          /\ Len(extract.sections[i].subsections) = 2
          /\ full_text(extract.sections[i])
               = extract.sections[i].subsections[1].title[1]
                 \o << ":", "\n", "\n", "x", "\n", "\n" >>
                 \o extract.sections[i].subsections[2].title[1]
                 \o << ":", "\n", "\n", "x" >>

\* C29: the extract is split in front of its markers and nowhere else: the
\* pieces are the text before the first marker and, for every marker, its
\* digit, its closing sentinel pair and what follows up to the next marker; a
\* sentinel pair that opens no marker stays in the intro.
C29_SplitsAtMarkersOnly ==
    parse_pc \in {"parsed", "raised"} =>
        LET split_data == ARTICLE_SPLITTER_split(raw_extract)
        IN  /\ Len(split_data) = Len(outline) + 1
            /\ split_data[1] = intro_text
            /\ \A i \in 1..Len(outline) :
                  i + 1 <= Len(split_data) =>
                      split_data[i + 1]
                        = << outline[i].digit, "F", "F" >>
                          \o Segment(outline[i].shape, Letters[i])
            /\ ~extract.raised => extract.sections[1].text = strip(intro_text)

\* C29's case: an extract whose intro starts with a sentinel pair and a digit
\* has been parsed, headings behind it, and the intro kept the pair.
C29_Witness ==
    /\ parse_pc = "parsed"
    /\ Len(outline) >= 2
    /\ extract.sections[1].text = << "F", "F", "2", "x" >>
    /\ Len(Tree) = Len(outline) + 1


---------------------------------------------------------------------------
(* Spec: the worker. One user talks to it over USSD and sends 'more' SMS;   *)
(* each action is the handling of one inbound message.                      *)

RECURSIVE MenuLines(_, _, _)
MenuLines(options, start, i) ==
    IF i > Len(options) THEN << >>
    ELSE (IF i > 1 THEN << "\n" >> ELSE << >>)
         \o << DigitChars[start + i] >> \o << ".", " " >> \o options[i]
         \o MenuLines(options, start, i + 1)

mkmenu(options, prefix, start) == prefix \o MenuLines(options, start, 1)

RECURSIVE DropOptions(_, _)
DropOptions(cfg, options) ==
    IF Len(mkmenu(options, << >>, 1)) > cfg.max_ussd_content_length /\ options # << >>
    THEN DropOptions(cfg, SubSeq(options, 1, Len(options) - 1))
    ELSE options

\* make_options had it counted every option it was given.
make_options_counting_every_option(cfg, options) ==
    [count |-> Len(options),
     joined |-> SliceTo(mkmenu(DropOptions(cfg, options), << >>, 1),
                        cfg.max_ussd_content_length)]

\* make_options: (count, menu)
make_options(cfg, options) ==
    LET shown == DropOptions(cfg, options)
    IN  [count |-> Len(shown),
         joined |-> SliceTo(mkmenu(shown, << >>, 1), cfg.max_ussd_content_length)]

\* normalize_content without transliteration and minimizing: (text, sms)
normalize_content(cfg, content) ==
    [text |-> content, sms |-> normalize_whitespace(content)]

Message(endpoint, content, continue_session) ==
    [endpoint |-> endpoint, content |-> content, continue_session |-> continue_session]

NoSession ==
    [exists |-> FALSE, state |-> "None", results |-> << >>, page |-> << >>,
     sms_content |-> << >>, sms_offset |-> 0, fullurl |-> None,
     more_messages |-> 0]
\* A stored session that is not empty and has no 'state' field.
NoState == "no state field"
BrokenSession == [NoSession EXCEPT !.exists = TRUE, !.state = NoState]
\* session['state'] of such a session raises KeyError.
KeyError(sess) == sess.exists /\ sess.state = NoState

\* session_manager.create_session(user_id)
create_session == [NoSession EXCEPT !.exists = TRUE]

\* What a handler step leaves: the session it returns and the messages it
\* sent, or the exception it raised after sending them.
Done(sess, msgs) == [raised |-> FALSE, session |-> sess, sent |-> msgs]
Fail(msgs) == [raised |-> TRUE, session |-> NoSession, sent |-> msgs]

\* The API's answers to one call: get_extract serves the article or fails;
\* search finds the article, finds nothing or fails.
ArticleTitle == << "T" >>
ApiAnswers == {"ok", "empty", "error"}

isdigit(s) == s # << >> /\ \A i \in 1..Len(s) : IsDigit(s[i])
RECURSIVE int_str(_)
int_str(s) == IF s = << >> THEN 0
              ELSE 10 * int_str(SubSeq(s, 1, Len(s) - 1)) + int(s[Len(s)])

\* select_option had its invalid-selection reply kept the USSD session open.
select_option_keeping_the_session_open(cfg, options, msg) ==
    LET response == strip(msg.content[1])
        index == int_str(response) - 1
        n == Len(options)
    IN  IF isdigit(response) /\ index >= -n /\ index < n
        THEN [selection |-> Some(options[IF index < 0 THEN index + n + 1 ELSE index + 1]),
              index |-> index, sent |-> << >>]
        ELSE [selection |-> None, index |-> 0,
              sent |-> << Message("default", cfg.msg_invalid_section, TRUE) >>]

\* select_option: the option chosen and its index, or the invalid-selection
\* reply. A Python index below zero counts from the end of the list.
select_option(cfg, options, msg) ==
    LET response == strip(msg.content[1])
        index == int_str(response) - 1
        n == Len(options)
    IN  IF isdigit(response) /\ index >= -n /\ index < n
        THEN [selection |-> Some(options[IF index < 0 THEN index + n + 1 ELSE index + 1]),
              index |-> index, sent |-> << >>]
        ELSE [selection |-> None, index |-> 0,
              sent |-> << Message("default", cfg.msg_invalid_section, FALSE) >>]

\* The dial had it taken a new session straight to the choice of a section.
process_message_new_skipping_the_search(msg, cfg, sess) ==
    Done([sess EXCEPT !.state = "content"],
         << Message("default", cfg.msg_prompt, TRUE) >>)

process_message_new(msg, cfg, sess) ==
    Done([sess EXCEPT !.state = "searching"],
         << Message("default", cfg.msg_prompt, TRUE) >>)

process_message_searching(msg, cfg, sess, api) ==
    IF msg.content = None \/ api = "error" THEN Fail(<< >>)
    ELSE LET query == strip(msg.content[1])
             results == IF api = "ok" THEN << ArticleTitle >> ELSE << >>
             menu == make_options(cfg, results)
         IN  IF results # << >>
             THEN Done([sess EXCEPT !.results = SubSeq(results, 1, menu.count),
                                    !.state = "sections"],
                       << Message("default", menu.joined, TRUE) >>)
             ELSE Done([sess EXCEPT !.state = "None"],
                       << Message("default", cfg.msg_no_results \o query, FALSE) >>)

\* The APIError of a failed call of the API.
APIError == << "APIError" >>

\* WikipediaAPI.get_extract(title): the parsed extract with its URL, or the
\* exception raised. api is whether the API was called, read whether the
\* cache was.
api_get_extract(title, api) ==
    IF api = "error"
    THEN [raised |-> TRUE, sections |-> APIError, fullurl |-> None,
          api |-> TRUE, read |-> FALSE]
    ELSE [raised |-> _from_string(wikipedia).raised,
          sections |-> _from_string(wikipedia).sections,
          fullurl |-> fullurl, api |-> TRUE, read |-> FALSE]

\* The key of the extract cache: wikipedia.url, ':', title.
ApiUrl == << "u" >>
CacheKey(title) == ApiUrl \o << ":" >> \o title

\* The serialization of an extract that has a URL: its sections as to_json
\* gives them, and the URL.
extract_to_json(extr) == [sections |-> to_json(extr.sections), fullurl |-> extr.fullurl]
extract_from_json(data) == [sections |-> from_json(data.sections), fullurl |-> data.fullurl]

\* extract_redis.set(key, extract.to_json()) and expire(key, content_cache_time)
CacheEntry(cfg, title, extr) ==
    [key |-> CacheKey(title), data |-> extract_to_json(extr),
     ttl |-> cfg.content_cache_time]

\* _get_cached_extract had it asked the API on a hit as well.
_get_cached_extract_asking_the_api(cfg, title, api) ==
    [api_get_extract(title, api) EXCEPT !.read = TRUE]

\* _get_cached_extract: the entry deserialized on a hit, the API's extract on
\* a miss.
_get_cached_extract(cfg, title, api) ==
    IF extract_redis # None /\ extract_redis[1].key = CacheKey(title)
    THEN [raised |-> FALSE,
          sections |-> extract_from_json(extract_redis[1].data).sections,
          fullurl |-> extract_from_json(extract_redis[1].data).fullurl,
          api |-> FALSE, read |-> TRUE]
    ELSE [api_get_extract(title, api) EXCEPT !.read = TRUE]

\* get_extract(config, title)
get_extract(cfg, title, api) ==
    IF cfg.content_cache_time > 0 THEN _get_cached_extract(cfg, title, api)
    ELSE api_get_extract(title, api)

\* The cache after get_extract(config, title): a miss that the API answered
\* stores the serialized extract.
CacheAfter(cfg, title, api) ==
    IF cfg.content_cache_time > 0 /\ get_extract(cfg, title, api).api
       /\ ~get_extract(cfg, title, api).raised
    THEN Some(CacheEntry(cfg, title, get_extract(cfg, title, api)))
    ELSE extract_redis

RECURSIVE Titles(_, _)
Titles(sections, i) ==
    IF i > Len(sections) THEN << >>
    ELSE << sections[i].title[1] >> \o Titles(sections, i + 1)

\* process_message_sections after the selection, after the extract.
SectionsMenu(cfg, sess, selection, menu, results) ==
    Done([sess EXCEPT !.page = selection,
                      !.results = SubSeq(results, 1, menu.count),
                      !.state = "content"],
         << Message("default", menu.joined, TRUE) >>)
SectionsResults(cfg, sess, selection, results) ==
    SectionsMenu(cfg, sess, selection, make_options(cfg, results), results)
SectionsExtract(cfg, sess, selection, extr) ==
    IF extr.raised THEN Fail(<< >>)
    ELSE SectionsResults(cfg, sess, selection,
                         << selection >> \o Titles(extr.sections, 2))
SectionsSelected(cfg, sess, api, sel) ==
    IF sel.selection = None \/ sel.selection[1] = << >>
    THEN Done([sess EXCEPT !.state = "None"], sel.sent)
    ELSE SectionsExtract(cfg, sess, sel.selection[1],
                         get_extract(cfg, sel.selection[1], api))
process_message_sections(msg, cfg, sess, api) ==
    IF msg.content = None THEN Fail(<< >>)
    ELSE SectionsSelected(cfg, sess, api, select_option(cfg, sess.results, msg))

\* suffix.lstrip(' ')
RECURSIVE lstrip_space(_)
lstrip_space(s) ==
    IF s # << >> /\ s[1] = " " THEN lstrip_space(Tail(s)) ELSE s

\* process_fullurl with mobi_url_host None, its default: the URL as it is
\* served, None for an article that has none.
process_fullurl(cfg, url) ==
    IF url = None \/ url[1] = << >> THEN None ELSE url

\* ' %s %s' % (fullurl, suffix.lstrip(' ')) when there is a URL.
WithUrl(url, suffix) ==
    IF url = None THEN suffix
    ELSE << " " >> \o url[1] \o << " " >> \o lstrip_space(suffix)

\* send_sms_content after the suffixes are settled: one chunk goes out on the
\* sms_content endpoint.
SmsContent(sess, r) ==
    IF r.raised THEN Fail(<< >>)
    ELSE Done([sess EXCEPT !.sms_offset = sess.sms_offset + r.n + 1,
                           !.state = IF sess.sms_offset + r.n + 1 >= Len(sess.sms_content)
                                     THEN "None" ELSE @],
              << Message("sms_content", r.text, TRUE) >>)
SmsContentWithUrl(cfg, sess, url) ==
    SmsContent(sess, format_more(get_sms_formatter(cfg), sess.sms_content,
                                 sess.sms_offset,
                                 WithUrl(url, cfg.msg_more_content_suffix),
                                 WithUrl(url, cfg.msg_no_more_content_suffix)))

\* send_sms_content had it put the URL into the suffix of every SMS.
send_sms_content_url_in_every_sms(msg, cfg, sess) ==
    SmsContentWithUrl(cfg, sess,
                      IF cfg.include_url_in_sms
                      THEN process_fullurl(cfg, sess.fullurl) ELSE None)

\* send_sms_content: the URL joins the suffixes of the SMS that answers a USSD
\* message when include_url_in_sms is set.
send_sms_content(msg, cfg, sess) ==
    SmsContentWithUrl(cfg, sess,
                      IF msg.endpoint = "default" /\ cfg.include_url_in_sms
                      THEN process_fullurl(cfg, sess.fullurl) ELSE None)

\* process_message_content after the selection, after the extract, after the
\* USSD reply, after the SMS.
ContentSms(cfg, reply, sms) ==
    IF sms.raised THEN Fail(reply)
    ELSE Done([sms.session EXCEPT
                  !.state = IF ~cfg.send_more_sms_content THEN "None" ELSE "more"],
              reply \o sms.sent)
ContentSession(msg, cfg, sess, reply) ==
    ContentSms(cfg, reply,
               IF cfg.send_sms_content THEN send_sms_content(msg, cfg, sess)
               ELSE Done(sess, << >>))
ContentText(msg, cfg, sess, norm, url) ==
    ContentSession(msg, cfg,
                   [sess EXCEPT !.sms_content = norm.sms, !.sms_offset = 0,
                                !.fullurl = url],
                   << Message("default",
                              format(get_ussd_formatter(cfg), norm.text,
                                     cfg.msg_ussd_suffix), FALSE) >>)
\* The content had it been read from the section behind the one selected.
ContentExtractOfTheNextSection(msg, cfg, sess, index, extr) ==
    LET n == Len(extr.sections)
        at == IF index < 0 THEN index + n + 1 ELSE index + 2
    IN  IF extr.raised \/ at < 1 \/ at > n THEN Fail(<< >>)
        ELSE ContentText(msg, cfg, sess,
                         normalize_content(cfg, full_text(extr.sections[at])),
                         extr.fullurl)

ContentExtract(msg, cfg, sess, index, extr) ==
    LET n == Len(extr.sections)
        at == IF index < 0 THEN index + n + 1 ELSE index + 1
    IN  IF extr.raised \/ at < 1 \/ at > n THEN Fail(<< >>)
        ELSE ContentText(msg, cfg, sess,
                         normalize_content(cfg, full_text(extr.sections[at])),
                         extr.fullurl)
ContentSelected(msg, cfg, sess, api, sel) ==
    IF sel.selection = None \/ sel.selection[1] = << >>
    THEN Done([sess EXCEPT !.state = "None"], sel.sent)
    ELSE ContentExtract(msg, cfg, sess, sel.index, get_extract(cfg, sess.page, api))
process_message_content(msg, cfg, sess, api) ==
    IF msg.content = None THEN Fail(<< >>)
    ELSE ContentSelected(msg, cfg, sess, api, select_option(cfg, sess.results, msg))

\* handle_session_result: a session whose state is None is cleared.
handle_session_result(sess) == IF sess.state = "None" THEN NoSession ELSE sess

UssdMessages ==
    [endpoint : {"default"}, session_event : {"new", "resume", "close", "none"},
     content : {None, Some(<< "1" >>), Some(<< "2" >>), Some(<< "0" >>),
                Some(<< " ", "q" >>)}]
SmsMessages ==
    [endpoint : {"sms_content"}, session_event : {"none"},
     content : {None, Some(<< "m" >>)}]

_message_session_event(msg) ==
    IF msg.session_event # "none" THEN msg.session_event
    ELSE IF msg.content = None THEN "new" ELSE "resume"

\* The extracts the API may serve: an intro and a section that takes two SMS;
\* an empty intro with a subsection and a section with a non-ASCII text; a
\* heading without a title.
Articles ==
    { << "a", " ", "a" >> \o Marker("2") \o << "b", "\n", "a", " ", "a", " ", "a", " ", "a" >>,
      Marker("3") \o << "b" >> \o Marker("2") \o << "c", "\n", "\n", "a", "U", " ", "a" >>,
      Marker("2") }

\* The URL of the article.
ArticleUrl == << "w" >>

\* A configuration that includes the URL in the first SMS, its SMS limits
\* wider by the room the URL takes in the suffix.
IncludingUrl(cfg) ==
    [cfg EXCEPT !.include_url_in_sms = TRUE,
                !.max_sms_content_length = @ + Len(ArticleUrl) + 2,
                !.max_sms_unicode_length = @ + Len(ArticleUrl) + 2]

\* The states a stored session went through since its search began: none yet.
NoPath == [before |-> << >>, after |-> << >>]

\* The path with the state of the session now stored: an empty session or one
\* without state has none, a search starts it, a new state extends it.
PathAfter(p, sess) ==
    IF ~sess.exists \/ sess.state = NoState THEN << >>
    ELSE IF sess.state = "searching" THEN << "searching" >>
    ELSE IF p # << >> /\ p[Len(p)] = sess.state THEN p
    ELSE Append(p, sess.state)

\* No message in hand.
NoMessage == [endpoint |-> "none", session_event |-> "none", content |-> None]

\* The two handlers that may be in flight for one user, and a handler at rest:
\* its position, its message, the session it loaded, the session it works on,
\* the messages it sent, whether it loaded the session while the other
\* handler was between its load and its store.
Handlers == {1, 2}
IdleHandler ==
    [pc |-> "idle", msg |-> NoMessage, loaded |-> NoSession, session |-> NoSession,
     sent |-> << >>, interleaved |-> FALSE]
NoHandlers == [h \in Handlers |-> IdleHandler]

\* What get_extract did: whether it was called, read the cache, found the
\* entry there, called the API; and whether the cache held the entry of the
\* title when it was called.
NoFetch == [called |-> FALSE, read |-> FALSE, hit |-> FALSE, api |-> FALSE,
            cached |-> FALSE]

\* A content_cache_time that enables the extract cache.
ContentCacheTime == 10

\* The configurations of the worker: the two switches of the SMS delivery
\* and the URL switch in every combination, one whose USSD limit is too
\* short for a menu of two options, and two that cache the extracts.
WorkerConfigs ==
    {IF url THEN IncludingUrl(WikipediaConfig(MaxUssdContentLength, MaxUssdUnicodeLength,
                                              sms, more, << "+" >>, << "-" >>))
     ELSE WikipediaConfig(MaxUssdContentLength, MaxUssdUnicodeLength,
                          sms, more, << "+" >>, << "-" >>) :
        sms \in BOOLEAN, more \in BOOLEAN, url \in BOOLEAN}
    \cup {WikipediaConfig(NarrowUssdContentLength, NarrowUssdContentLength,
                          TRUE, TRUE, << "+" >>, << "-" >>)}
    \cup {[cfg EXCEPT !.content_cache_time = ContentCacheTime] :
             cfg \in {WikipediaConfig(MaxUssdContentLength, MaxUssdUnicodeLength,
                                      TRUE, TRUE, << "+" >>, << "-" >>),
                      IncludingUrl(WikipediaConfig(MaxUssdContentLength,
                                                   MaxUssdUnicodeLength, TRUE, TRUE,
                                                   << "+" >>, << "-" >>))}}

WorkerInit ==
    /\ config \in WorkerConfigs
    /\ wikipedia \in Articles
    /\ fullurl \in {None, Some(ArticleUrl)}
    /\ extract_redis = None
    /\ fetched = NoFetch
    /\ session \in {NoSession, BrokenSession}
    /\ inbound = [endpoint |-> "none", session_event |-> "none", content |-> None]
    /\ sent = << >>
    /\ loaded = NoSession
    /\ answer = "none"
    /\ raised = FALSE
    /\ failed = FALSE
    /\ handlers = NoHandlers
    /\ path = NoPath

\* The handler of the message gets to its call of get_extract: the session is
\* in state 'sections' or 'content' and the reply selects an option.
FetchesExtract(msg, cfg, sess) ==
    /\ _message_session_event(msg) # "close"
    /\ msg.content # None
    /\ sess.state \in {"sections", "content"}
    /\ select_option(cfg, sess.results, msg).selection \notin {None, Some(<< >>)}
\* The title it asks for: the option selected, or the page of the session.
FetchTitle(msg, cfg, sess) ==
    IF sess.state = "sections" THEN select_option(cfg, sess.results, msg).selection[1]
    ELSE sess.page

Fetched(extr, held) ==
    [called |-> TRUE, read |-> extr.read, hit |-> extr.read /\ ~extr.api,
     api |-> extr.api, cached |-> held]

\* The cache and the record of the call after the handling of the message.
ExtractFetch(msg, cfg, sess, api) ==
    IF FetchesExtract(msg, cfg, sess)
    THEN /\ fetched' = Fetched(get_extract(cfg, FetchTitle(msg, cfg, sess), api),
                               /\ extract_redis # None
                               /\ extract_redis[1].key = CacheKey(FetchTitle(msg, cfg, sess)))
         /\ extract_redis' = CacheAfter(cfg, FetchTitle(msg, cfg, sess), api)
    ELSE /\ fetched' = NoFetch
         /\ UNCHANGED extract_redis

\* getattr(self, 'process_message_%s' % (session['state'],))
pfunc(msg, cfg, sess, api) ==
    CASE sess.state = "new" -> process_message_new(msg, cfg, sess)
      [] sess.state = "searching" -> process_message_searching(msg, cfg, sess, api)
      [] sess.state = "sections" -> process_message_sections(msg, cfg, sess, api)
      [] sess.state = "content" -> process_message_content(msg, cfg, sess, api)

\* The end of consume_user_message: the session result is stored; an
\* exception is answered with msg_error and clears the session.
\* The handler had it left the session stored after an exception.
UserMessageResultKeepingSession(r) ==
    /\ raised' = r.raised
    /\ IF r.raised
       THEN /\ UNCHANGED session
            /\ sent' = r.sent \o << Message("default", config.msg_error, FALSE) >>
       ELSE /\ session' = handle_session_result(r.session)
            /\ sent' = r.sent

UserMessageResult(r) ==
    /\ raised' = r.raised
    /\ IF r.raised
       THEN /\ session' = NoSession
            /\ sent' = r.sent \o << Message("default", config.msg_error, FALSE) >>
       ELSE /\ session' = handle_session_result(r.session)
            /\ sent' = r.sent

\* The close event had it cleared the session whatever its state.
SessionAfterCloseCleared(cfg, sess) == NoSession

\* The session a close event leaves: cleared, or kept for the 'more' SMS.
SessionAfterClose(cfg, sess) ==
    IF ~cfg.send_sms_content \/ (sess.exists /\ sess.state # "more")
    THEN NoSession ELSE sess

\* The new session had it been the old one with its state reset.
SessionToProcessKeepingData(msg, sess) ==
    IF ~sess.exists \/ sess.state = NoState \/ sess.state = "more"
       \/ _message_session_event(msg) = "new"
    THEN [sess EXCEPT !.exists = TRUE, !.state = "new"] ELSE sess

\* The session the message is processed in: a new one when there is none,
\* when the old one has no 'state' field or waits for 'more' SMS, or when the
\* event is 'new'.
SessionToProcess(msg, sess) ==
    IF ~sess.exists \/ sess.state = NoState \/ sess.state = "more"
       \/ _message_session_event(msg) = "new"
    THEN [create_session EXCEPT !.state = "new"] ELSE sess

\* The test of a close event reads session['state'] when send_sms_content
\* is set and the session is not empty.
CloseFails(cfg, sess) == cfg.send_sms_content /\ KeyError(sess)

consume_user_message ==
    \E msg \in UssdMessages, api \in ApiAnswers :
       /\ inbound' = msg
       /\ loaded' = session
       /\ answer' = api
       /\ IF _message_session_event(msg) = "close"
          THEN /\ session' = IF CloseFails(config, session) THEN session
                             ELSE SessionAfterClose(config, session)
               /\ sent' = << >>
               /\ raised' = FALSE
          ELSE UserMessageResult(
                  pfunc(msg, config, SessionToProcess(msg, session), api))
       /\ failed' = (_message_session_event(msg) = "close" /\ CloseFails(config, session))
       /\ ExtractFetch(msg, config, SessionToProcess(msg, session), api)
       /\ path' = [before |-> path.after, after |-> PathAfter(path.after, session')]
       /\ UNCHANGED << config, wikipedia, fullurl, handlers, fmt_vars, parse_vars >>

\* The end of consume_content_sms_message: an exception clears the session.
ContentSmsResult(r) ==
    /\ raised' = r.raised
    /\ IF r.raised THEN session' = NoSession /\ sent' = r.sent
       ELSE session' = handle_session_result(r.session) /\ sent' = r.sent

\* The handler had it answered a session in any state.
IgnoresSmsWhateverTheState(msg, sess) == msg.content = None \/ ~sess.exists

\* The early returns of consume_content_sms_message.
IgnoresSms(msg, sess) ==
    msg.content = None \/ ~sess.exists \/ sess.state # "more"

\* The test of the state reads session['state'] of a session that is not
\* empty.
SmsFails(msg, sess) == msg.content # None /\ KeyError(sess)

consume_content_sms_message ==
    \E msg \in SmsMessages :
       /\ session.more_messages < MaxMoreMessages
       /\ inbound' = msg
       /\ loaded' = session
       /\ answer' = "none"
       /\ failed' = SmsFails(msg, session)
       /\ IF SmsFails(msg, session) \/ IgnoresSms(msg, session)
          THEN sent' = << >> /\ raised' = FALSE /\ UNCHANGED session
          ELSE ContentSmsResult(
                  send_sms_content(msg, config,
                                   [session EXCEPT !.more_messages = @ + 1]))
       /\ fetched' = NoFetch
       /\ path' = [before |-> path.after, after |-> PathAfter(path.after, session')]
       /\ UNCHANGED << config, wikipedia, fullurl, extract_redis, handlers,
                       fmt_vars, parse_vars >>

\* The entry of the extract cache expires, content_cache_time after it was
\* stored. No message is handled.
expire_extract ==
    /\ extract_redis # None
    /\ extract_redis' = None
    /\ inbound' = [endpoint |-> "none", session_event |-> "none", content |-> None]
    /\ sent' = << >> /\ loaded' = session /\ answer' = "none" /\ raised' = FALSE
    /\ failed' = FALSE
    /\ fetched' = NoFetch
    /\ path' = [before |-> path.after, after |-> path.after]
    /\ UNCHANGED << config, wikipedia, fullurl, session, handlers, fmt_vars,
                    parse_vars >>

Next == consume_user_message \/ consume_content_sms_message \/ expire_extract

---------------------------------------------------------------------------
(* AsyncSpec: the two message handlers step by step. Each yield on the      *)
(* session store ends a step, and the steps of two handlers of one user     *)
(* interleave.                                                              *)

\* The messages that arrive: a dial, a search text or a choice, a close
\* event, a 'more' SMS.
AsyncMessages ==
    { [endpoint |-> "default", session_event |-> "new", content |-> None],
      [endpoint |-> "default", session_event |-> "resume", content |-> Some(<< "1" >>)],
      [endpoint |-> "default", session_event |-> "close", content |-> None],
      [endpoint |-> "sms_content", session_event |-> "none", content |-> Some(<< "m" >>)] }

AsyncInit ==
    /\ config = WikipediaConfig(MaxUssdContentLength, MaxUssdUnicodeLength,
                                TRUE, TRUE, << "+" >>, << "-" >>)
    /\ wikipedia = << "a", " ", "a" >> \o Marker("2")
                       \o << "b", "\n", "a", " ", "a", " ", "a", " ", "a" >>
    /\ fullurl = None
    /\ extract_redis = None
    /\ fetched = NoFetch
    /\ session = NoSession
    /\ inbound = NoMessage
    /\ sent = << >>
    /\ loaded = NoSession
    /\ answer = "none"
    /\ raised = FALSE
    /\ failed = FALSE
    /\ handlers = NoHandlers
    /\ path = NoPath

Other(h) == CHOOSE o \in Handlers : o # h

\* The handler has loaded the session and has not stored or cleared it yet.
InFlight(h) == handlers[h].pc \in {"create", "process", "send", "result", "clear"}

\* A message arrives and its handler starts.
Receive(h) ==
    /\ handlers[h].pc = "idle"
    /\ \E msg \in AsyncMessages :
          handlers' = [handlers EXCEPT ![h] = [IdleHandler EXCEPT !.pc = "load", !.msg = msg],
                                       ![Other(h)].interleaved = FALSE]
    /\ UNCHANGED << config, wikipedia, fullurl, extract_redis, fetched, session, inbound,
                    sent, loaded, answer, raised, failed, path, fmt_vars, parse_vars >>

\* The close event clears the session.
ClosesSession(cfg, sess) ==
    ~cfg.send_sms_content \/ (sess.exists /\ sess.state # "more")

\* The message is processed in a new session.
NeedsNewSession(msg, sess) ==
    \/ ~sess.exists \/ sess.state = NoState \/ sess.state = "more"
    \/ _message_session_event(msg) = "new"

\* Where a handler stands after its load, at its next yield on the store.
PcAfterLoad(msg, cfg, sess) ==
    IF msg.endpoint = "sms_content"
    THEN IF SmsFails(msg, sess) \/ IgnoresSms(msg, sess) THEN "idle" ELSE "send"
    ELSE IF _message_session_event(msg) = "close"
         THEN IF ~CloseFails(cfg, sess) /\ ClosesSession(cfg, sess) THEN "clear" ELSE "idle"
         ELSE IF NeedsNewSession(msg, sess) THEN "create" ELSE "process"

\* yield self.load_session(session_manager, user_id) and the code up to the
\* next yield; the SMS handler counts its message.
LoadSession(h) ==
    /\ handlers[h].pc = "load"
    /\ handlers[h].msg.endpoint = "sms_content" => session.more_messages < MaxMoreMessages
    /\ handlers' =
          [handlers EXCEPT
              ![h].pc = PcAfterLoad(handlers[h].msg, config, session),
              ![h].loaded = session,
              ![h].session = IF PcAfterLoad(handlers[h].msg, config, session) = "send"
                             THEN [session EXCEPT !.more_messages = @ + 1] ELSE session,
              ![h].interleaved = InFlight(Other(h))]
    /\ UNCHANGED << config, wikipedia, fullurl, extract_redis, fetched, session, inbound,
                    sent, loaded, answer, raised, failed, path, fmt_vars, parse_vars >>

\* yield session_manager.create_session(user_id): the session manager stores
\* the session it creates, which has no 'state' field; the handler then sets
\* the state of its copy to 'new'.
CreateSession(h) ==
    /\ handlers[h].pc = "create"
    /\ session' = BrokenSession
    /\ handlers' = [handlers EXCEPT ![h].pc = "process",
                                    ![h].session = [create_session EXCEPT !.state = "new"]]
    /\ UNCHANGED << config, wikipedia, fullurl, extract_redis, fetched, inbound,
                    sent, loaded, answer, raised, failed, path, fmt_vars, parse_vars >>

\* What the try block leaves of a handler: its session and the result step,
\* or the except clause with its clear_session.
Processed(h, r, error) ==
    handlers' = [handlers EXCEPT
                    ![h].pc = IF r.raised THEN "clear" ELSE "result",
                    ![h].session = IF r.raised THEN @ ELSE r.session,
                    ![h].sent = IF r.raised THEN r.sent \o error ELSE r.sent]

\* session = yield pfunc(msg, config, session)
ProcessMessage(h) ==
    /\ handlers[h].pc = "process"
    /\ \E api \in ApiAnswers :
          Processed(h, pfunc(handlers[h].msg, config, handlers[h].session, api),
                    << Message("default", config.msg_error, FALSE) >>)
    /\ UNCHANGED << config, wikipedia, fullurl, extract_redis, fetched, session, inbound,
                    sent, loaded, answer, raised, failed, path, fmt_vars, parse_vars >>

\* session = yield self.send_sms_content(msg, config, session) of the SMS
\* handler.
SendContentSms(h) ==
    /\ handlers[h].pc = "send"
    /\ Processed(h, send_sms_content(handlers[h].msg, config, handlers[h].session), << >>)
    /\ UNCHANGED << config, wikipedia, fullurl, extract_redis, fetched, session, inbound,
                    sent, loaded, answer, raised, failed, path, fmt_vars, parse_vars >>

\* yield self.handle_session_result(session_manager, user_id, session)
HandleSessionResult(h) ==
    /\ handlers[h].pc = "result"
    /\ session' = handle_session_result(handlers[h].session)
    /\ handlers' = [handlers EXCEPT ![h].pc = "idle"]
    /\ UNCHANGED << config, wikipedia, fullurl, extract_redis, fetched, inbound,
                    sent, loaded, answer, raised, failed, path, fmt_vars, parse_vars >>

\* yield session_manager.clear_session(user_id), of a close event or of an
\* except clause.
ClearSession(h) ==
    /\ handlers[h].pc = "clear"
    /\ session' = NoSession
    /\ handlers' = [handlers EXCEPT ![h].pc = "idle"]
    /\ UNCHANGED << config, wikipedia, fullurl, extract_redis, fetched, inbound,
                    sent, loaded, answer, raised, failed, path, fmt_vars, parse_vars >>

AsyncNext ==
    \/ \E h \in Handlers : Receive(h)
    \/ \E h \in Handlers : LoadSession(h)
    \/ \E h \in Handlers : CreateSession(h)
    \/ \E h \in Handlers : ProcessMessage(h)
    \/ \E h \in Handlers : SendContentSms(h)
    \/ \E h \in Handlers : HandleSessionResult(h)
    \/ \E h \in Handlers : ClearSession(h)

---------------------------------------------------------------------------
(* Properties of the worker (Spec).                                        *)

SmsDelivered == \E k \in 1..Len(sent) : sent[k].endpoint = "sms_content"

\* C2: after any SMS content delivery, the first one of a USSD selection or a
\* reply to a 'more' SMS, a session whose sms_offset has reached the end of
\* sms_content is not left in state 'more'.
C2_ContinuationEnds ==
    (SmsDelivered /\ session.exists
        /\ session.sms_offset >= Len(session.sms_content))
    => session.state # "more"

\* The last message handled came over USSD, came as an SMS.
UssdHandled == inbound.endpoint = "default"
SmsHandled == inbound.endpoint = "sms_content"

\* The last USSD message was processed in the stored session, in that state.
ProcessedIn(state) ==
    /\ UssdHandled
    /\ _message_session_event(inbound) = "resume"
    /\ loaded.exists /\ loaded.state = state

\* C15: with send_sms_content false no message is sent on the sms_content
\* endpoint, whatever USSD messages and SMS arrive.
C15_NoSmsWhenSuppressed == ~config.send_sms_content => ~SmsDelivered

\* The reply is the decimal number of one of the n options displayed.
IsChoice(reply, n) == isdigit(strip(reply)) /\ int_str(strip(reply)) \in 1..n

InvalidSelectionReply == << Message("default", config.msg_invalid_section, FALSE) >>

\* C16: in the states 'sections' and 'content' a reply that is not the number
\* of a displayed option is answered with the invalid-selection message alone,
\* the USSD session closed and the stored session ended; a number of a
\* displayed option in state 'sections' selects the page displayed at it.
C16_OnlyDisplayedNumbersSelect ==
    (ProcessedIn("sections") \/ ProcessedIn("content")) /\ inbound.content # None =>
        IF IsChoice(inbound.content[1], Len(loaded.results))
        THEN sent # InvalidSelectionReply
             /\ (loaded.state = "sections" /\ ~raised =>
                    session.page = loaded.results[int_str(strip(inbound.content[1]))])
        ELSE sent = InvalidSelectionReply /\ session = NoSession

CloseHandled == UssdHandled /\ _message_session_event(inbound) = "close"

\* C17: a USSD close event is answered with nothing; it clears the stored
\* session when send_sms_content is false or the session is not in state
\* 'more', and leaves a session in state 'more' as it is otherwise. The
\* sessions meant are those that have a state; one without the field is C33's.
C17_CloseKeepsMoreSession ==
    CloseHandled =>
        /\ sent = << >>
        /\ ~KeyError(loaded) =>
              session = IF ~config.send_sms_content \/ loaded.state # "more"
                        THEN NoSession ELSE loaded

\* C17's case: a close event has left a session that waits for 'more' SMS.
C17_Witness ==
    /\ CloseHandled
    /\ config.send_sms_content
    /\ loaded.exists /\ loaded.state = "more"
    /\ session.state = "more" /\ session.sms_content # << >>

\* C18: a USSD message other than a close that finds the stored session in
\* state 'more', or finds none, is handled as a new session whatever it
\* holds: the prompt is sent, the state is 'searching' and nothing of the old
\* session is left.
C18_NewSearchOverridesMore ==
    UssdHandled /\ ~CloseHandled /\ (~loaded.exists \/ loaded.state = "more") =>
        /\ sent = << Message("default", config.msg_prompt, TRUE) >>
        /\ session = [create_session EXCEPT !.state = "searching"]

\* C18's case: a USSD reply, not a dial, has found a session in state 'more'
\* that holds text still to be sent.
C18_Witness ==
    /\ UssdHandled
    /\ inbound.session_event = "resume" /\ inbound.content # None
    /\ loaded.exists /\ loaded.state = "more"
    /\ loaded.sms_offset < Len(loaded.sms_content)
    /\ session.state = "searching"

\* C19: an SMS that finds no session, finds a session not in state 'more', or
\* has content None is answered with nothing and leaves the stored session as
\* it was.
C19_StraySmsIgnored ==
    SmsHandled /\ (inbound.content = None \/ ~loaded.exists \/ loaded.state # "more") =>
        sent = << >> /\ session = loaded

\* C19's case: a 'more' SMS has arrived in the middle of a USSD session.
C19_Witness ==
    /\ SmsHandled /\ inbound.content # None
    /\ loaded.exists /\ loaded.state = "content"
    /\ session = loaded

\* C20: when the processing of a USSD message raises, the last message the
\* user gets is the error message with the USSD session closed, and the
\* stored session is cleared.
C20_ErrorClearsSession ==
    UssdHandled /\ raised =>
        /\ sent # << >>
        /\ sent[Len(sent)] = Message("default", config.msg_error, FALSE)
        /\ session = NoSession

\* C20's case: an exception that is no API error, raised in state 'content'.
C20_Witness ==
    /\ ProcessedIn("content") /\ raised
    /\ answer # "error"

\* The text holds the other one somewhere.
Contains(text, part) ==
    \E i \in 0..(Len(text) - Len(part)) : SubSeq(text, i + 1, i + Len(part)) = part

\* The contents of the SMS the last handler sent.
SmsSent ==
    {sent[k].content : k \in {j \in 1..Len(sent) : sent[j].endpoint = "sms_content"}}

\* The configured suffixes with the URL in front of them.
UrlSuffixes ==
    {<< " " >> \o ArticleUrl \o << " " >> \o suffix :
        suffix \in {config.msg_more_content_suffix, config.msg_no_more_content_suffix}}

\* The ends a chunk may have behind its part of the content, the suffixes
\* being the ones given.
ChunkEnds(more, no_more) == {no_more, more, PostEllipsis \o more}

Uncached ==
    pfunc(inbound, [config EXCEPT !.content_cache_time = 0],
          SessionToProcess(inbound, loaded), answer)

C33_BrokenSessionReset ==
    UssdHandled /\ loaded = BrokenSession =>
        /\ ~failed
        /\ IF CloseHandled THEN sent = << >> /\ session = NoSession
           ELSE /\ sent = << Message("default", config.msg_prompt, TRUE) >>
                /\ session = [create_session EXCEPT !.state = "searching"]

\* The options as a menu: one line each, numbered from 1.
RECURSIVE NumberedList(_, _)
NumberedList(options, n) ==
    IF n = 0 THEN << >>
    ELSE NumberedList(options, n - 1) \o (IF n > 1 THEN << "\n" >> ELSE << >>)
         \o << DigitChars[n + 1], ".", " " >> \o options[n]

\* The options the last handler had to make a menu of: the titles found by the
\* search, or the page chosen and the titles of the root sections behind the
\* intro.
OptionsOffered ==
    IF loaded.state = "searching" THEN << ArticleTitle >>
    ELSE << session.page >> \o Titles(_from_string(wikipedia).sections, 2)

MenuMade ==
    /\ ProcessedIn("searching") \/ ProcessedIn("sections")
    /\ ~raised /\ session.exists
    /\ session.state = IF loaded.state = "searching" THEN "sections" ELSE "content"

\* C31: the menu sent is the numbered list, from 1, of the options stored as
\* results; these are the first options offered, in their order, each whole;
\* the menu is not longer than max_ussd_content_length, and one more option
\* would make it longer.
C31_MenuOfLeadingOptions ==
    MenuMade =>
        LET count == Len(session.results)
        IN  /\ count <= Len(OptionsOffered)
            /\ session.results = SubSeq(OptionsOffered, 1, count)
            /\ Len(sent) = 1
            /\ sent[1].content = NumberedList(session.results, count)
            /\ Len(sent[1].content) <= config.max_ussd_content_length
            /\ count < Len(OptionsOffered) =>
                  Len(NumberedList(OptionsOffered, count + 1))
                     > config.max_ussd_content_length

\* C31's case: the section menu had room for the first of two options only.
C31_Witness ==
    /\ MenuMade /\ loaded.state = "sections"
    /\ Len(OptionsOffered) = 2
    /\ Len(session.results) = 1
    /\ sent[1].content = << "1", ".", " " >> \o session.page

\* The state of a stored session; an empty session and one without the field,
\* which the worker treats as empty, have none.
StoredState(sess) ==
    IF ~sess.exists \/ sess.state = NoState THEN "none" ELSE sess.state

\* The transitions of the stored state from one message to the next.
Transition(from, to, new_event, error) ==
    \/ from = to
    \/ from = "none" /\ to = "searching"
    \/ from = "searching" /\ to \in {"sections", "none"}
    \/ from = "sections" /\ to \in {"content", "none"}
    \/ from = "content" /\ to \in {"more", "none"}
    \/ from = "more" /\ to \in {"more", "none", "searching"}
    \/ new_event /\ to = "searching"
    \/ error /\ to = "none"

\* The USSD replies that carry the text of a section of the article.
ContentReplies ==
    IF _from_string(wikipedia).raised THEN {}
    ELSE {Message("default",
                  format(get_ussd_formatter(config),
                         normalize_content(config,
                             full_text(_from_string(wikipedia).sections[i])).text,
                         config.msg_ussd_suffix), FALSE) :
             i \in 1..Len(_from_string(wikipedia).sections)}
UssdContentDelivered ==
    UssdHandled /\ \E k \in 1..Len(sent) : sent[k] \in ContentReplies

\* C37: from one message to the next the stored state moves along none ->
\* searching -> sections -> content -> more (-> more), to the end from every
\* state, from 'more' to a new search, to a new search on a new-session event,
\* to the end on an error; content is delivered, over USSD or SMS, only in a
\* session that went through searching, sections and content in that order.
C37_StateTransitions ==
    /\ Transition(StoredState(loaded), StoredState(session),
                  UssdHandled /\ _message_session_event(inbound) = "new", raised)
    /\ UssdHandled /\ (UssdContentDelivered \/ SmsDelivered)
          => path.before = << "searching", "sections", "content" >>
    /\ SmsHandled /\ SmsDelivered
          => path.before = << "searching", "sections", "content", "more" >>

\* C37's case: the 'more' SMS of a session that went through every state is
\* answered with the last chunk and ends it.
C37_Witness ==
    /\ SmsHandled /\ SmsDelivered
    /\ path.before = << "searching", "sections", "content", "more" >>
    /\ ~session.exists

\* The replies of the last handler on the USSD endpoint.
UssdReplies == {sent[k] : k \in {j \in 1..Len(sent) : sent[j].endpoint = "default"}}

\* The stored session waits for the next USSD message of the dialogue.
SessionOpen == session.exists /\ session.state \in {"searching", "sections", "content"}

\* C38: after a USSD message that is no close event the worker has replied,
\* and its reply keeps the USSD session open exactly when the stored session
\* is in state 'searching', 'sections' or 'content'; a reply that closes the
\* USSD session leaves the stored session cleared or in state 'more'.
C38_ReplyMatchesSession ==
    UssdHandled /\ ~CloseHandled =>
        /\ UssdReplies # {}
        /\ \A reply \in UssdReplies :
              /\ reply.continue_session <=> SessionOpen
              /\ ~reply.continue_session =>
                    ~session.exists \/ session.state = "more"

\* C38's case: the content reply closes the USSD session and the stored
\* session waits for 'more' SMS.
C38_Witness ==
    /\ UssdHandled /\ ~CloseHandled
    /\ \E reply \in UssdReplies : ~reply.continue_session
    /\ session.exists /\ session.state = "more"

\* The sections of the article the API serves.
ArticleSections == _from_string(wikipedia).sections

\* The last message chose a displayed option of the section menu and its
\* content was delivered.
SectionChosen ==
    /\ ProcessedIn("content") /\ inbound.content # None /\ ~raised
    /\ IsChoice(inbound.content[1], Len(loaded.results))
Choice == int_str(strip(inbound.content[1]))

\* A message starts at the beginning of the text and ends with one of the ends.
StartsText(message, text, ends) ==
    \E k \in 0..Len(text), e \in ends : message = SubSeq(text, 1, k) \o e

\* The ends of the first SMS, with and without the URL of the article.
FirstSmsEnds ==
    ChunkEnds(config.msg_more_content_suffix, config.msg_no_more_content_suffix)
    \cup ChunkEnds(<< " " >> \o ArticleUrl \o << " " >> \o config.msg_more_content_suffix,
                   << " " >> \o ArticleUrl \o << " " >>
                       \o config.msg_no_more_content_suffix)

\* C39: the choice i of the section menu delivers the full text of the section
\* displayed at position i, the intro under the article title for i = 1, the
\* top-level section of the title displayed for i > 1; the USSD reply and the
\* first SMS both start at the beginning of that text, and the stored offset
\* is the one behind the first SMS.
C39_ChoiceDeliversSection ==
    SectionChosen =>
        /\ Choice <= Len(ArticleSections)
        /\ IF Choice = 1
           THEN /\ loaded.results[1] = loaded.page
                /\ ArticleSections[1].title = None
           ELSE ArticleSections[Choice].title = Some(loaded.results[Choice])
        /\ sent # << >>
        /\ sent[1].endpoint = "default"
        /\ StartsText(sent[1].content, full_text(ArticleSections[Choice]),
                      {config.msg_ussd_suffix, PostEllipsis \o config.msg_ussd_suffix})
        /\ config.send_sms_content =>
              /\ Len(sent) = 2 /\ sent[2].endpoint = "sms_content"
              /\ StartsText(sent[2].content,
                            normalize_whitespace(full_text(ArticleSections[Choice])),
                            FirstSmsEnds)
              /\ session.exists =>
                    /\ session.sms_content
                          = normalize_whitespace(full_text(ArticleSections[Choice]))
                    /\ \E e \in FirstSmsEnds :
                          sent[2].content
                            = SubSeq(session.sms_content, 1, session.sms_offset - 1) \o e

\* C39's case: the second option of the section menu was chosen and the first
\* SMS of its section left more to send.
C39_Witness ==
    /\ SectionChosen /\ Choice = 2
    /\ Len(sent) = 2 /\ sent[2].endpoint = "sms_content"
    /\ session.exists /\ session.state = "more"
    /\ session.sms_offset < Len(session.sms_content)

---------------------------------------------------------------------------
(* Properties of the interleaved handlers (AsyncSpec).                     *)

\* C35: at every point, between the steps of a handler too, a stored session
\* that is not empty has a 'state' field, and its value is 'searching',
\* 'sections', 'content' or 'more'.
C35_StoredSessionHasState ==
    session.exists => session.state \in {"searching", "sections", "content", "more"}

\* Both handlers have answered a 'more' SMS with a chunk.
BothAnsweredMore ==
    \A h \in Handlers : /\ handlers[h].pc = "idle"
                         /\ handlers[h].msg.endpoint = "sms_content"
                         /\ handlers[h].sent # << >>

\* C36: when the steps of two handlers of 'more' SMS interleave, the one that
\* loaded the session second continues where the first one ended: the two
\* replies differ and the stored sms_offset is the one behind both chunks.
C36_NoLostUpdate ==
    \A h \in Handlers :
        BothAnsweredMore /\ handlers[h].interleaved =>
            /\ handlers[h].loaded.sms_offset = handlers[Other(h)].session.sms_offset
            /\ handlers[1].sent # handlers[2].sent
            /\ session.exists => session.sms_offset = handlers[h].session.sms_offset

---------------------------------------------------------------------------
(* The specifications. Each one holds the variables of the other parts at   *)
(* rest.                                                                     *)

vars == << fmt_vars, parse_vars, worker_vars >>

FormatIdle ==
    /\ ussd_text = << >> /\ sms_text = << >>
    /\ more_suffix = << >> /\ no_more_suffix = << >>
    /\ sms_offset = 0 /\ more_state = "idle" /\ call = NoCall /\ delivered = << >>

ParseIdle ==
    /\ outline = << >> /\ intro_text = << >> /\ raw_extract = << >>
    /\ extract = NotParsed /\ cached = << >> /\ restored = << >>
    /\ parse_pc = "idle"

WorkerIdle ==
    /\ config = WikipediaConfig(0, 0, FALSE, FALSE, << >>, << >>)
    /\ wikipedia = << >> /\ fullurl = None /\ session = NoSession /\ sent = << >>
    /\ extract_redis = None /\ fetched = NoFetch
    /\ inbound = [endpoint |-> "none", session_event |-> "none", content |-> None]
    /\ loaded = NoSession /\ answer = "none" /\ raised = FALSE /\ failed = FALSE
    /\ handlers = NoHandlers
    /\ path = NoPath

Init == WorkerInit /\ FormatIdle /\ ParseIdle

Spec == Init /\ [][Next]_vars

FormatSpecInit == FormatInit /\ ParseIdle /\ WorkerIdle

FormatSpec == FormatSpecInit /\ [][FormatNext]_vars

FormatMisuseSpecInit == FormatMisuseInit /\ ParseIdle /\ WorkerIdle

FormatMisuseSpec == FormatMisuseSpecInit /\ [][FormatMisuseNext]_vars

ParseSpecInit == ParseInit /\ FormatIdle /\ WorkerIdle

ParseSpec == ParseSpecInit /\ [][ParseNext]_vars

AsyncSpecInit == AsyncInit /\ FormatIdle /\ ParseIdle

AsyncSpec == AsyncSpecInit /\ [][AsyncNext]_vars

=============================================================================
